---- MODULE Spec2Model ----
(***************************************************************************)
(* A model of the spaCy-like English tokenizer: the chunk tokenizer        *)
(* (tokenize_chunk), the infix resolver                                    *)
(* (simple_infix_tokenize_chunk_internal), the line orchestrator           *)
(* (advanced_tokenize_sentence_parallel) and the driver loop of main.      *)
(*                                                                         *)
(* A string is a sequence of characters; a character is a one-element name *)
(* with a UTF-8 width.  The matchers return BYTE offsets and the code      *)
(* slices by bytes, while token offsets count characters, so both units    *)
(* are kept.                                                               *)
(***************************************************************************)
EXTENDS Integers, Sequences, FiniteSets, TLC

-----------------------------------------------------------------------------
(* Bounds of the model *)

MaxChunkLen == 3
MaxContentLen == 4
MaxBase == 1
MaxSpans == 2

-----------------------------------------------------------------------------
(* Characters and strings *)

\* "E" stands for a two-byte character (such as U+00E9), "W" for the
\* three-byte whitespace U+3000, "S" for the space.
\* "N" is the newline.
Whitespace == {"S", "W"}
ChunkChar == {"a", ".", "-", "E"}
ContentChar == {"a", ".", "S", "W", "N"}

StringsUpTo(chars, n) == UNION {[1..k -> chars] : k \in 0..n}

ByteLen(c) == IF c = "E" THEN 2 ELSE IF c = "W" THEN 3 ELSE 1

RECURSIVE StrLen(_)
\* str::len : the length in bytes
StrLen(s) == IF s = <<>> THEN 0 ELSE ByteLen(Head(s)) + StrLen(Tail(s))

\* str::chars().count()
CharsCount(s) == Len(s)

\* the byte offset of the character boundary after the first i characters
ByteOffset(s, i) == StrLen(SubSeq(s, 1, i))

\* the number of characters before byte offset b (b is a char boundary)
CharIndex(s, b) == CHOOSE i \in 0..Len(s) : ByteOffset(s, i) = b

\* &s[a..b] with byte offsets
ByteSlice(s, a, b) == SubSeq(s, CharIndex(s, a) + 1, CharIndex(s, b))

RECURSIVE Concat(_)
Concat(ss) == IF ss = <<>> THEN <<>> ELSE Head(ss) \o Concat(Tail(ss))

RECURSIVE SumLens(_)
SumLens(ss) == IF ss = <<>> THEN 0 ELSE CharsCount(Head(ss)) + SumLens(Tail(ss))

Reverse(s) == [i \in 1..Len(s) |-> s[Len(s) + 1 - i]]

-----------------------------------------------------------------------------
(* Matchers.  A pattern is an ordered alternation of literal strings with  *)
(* an optional one-character look-behind and look-ahead class, optionally   *)
(* wrapped as ^(?:...)$ ; err says that scanning reports a runtime error.   *)

Pat(alts) == [alts |-> alts, lb |-> {}, la |-> {}, full |-> FALSE, err |-> FALSE]
FullPat(alts) == [Pat(alts) EXCEPT !.full = TRUE]
LbPat(alts, lb) == [Pat(alts) EXCEPT !.lb = lb]
LaPat(alts, la) == [Pat(alts) EXCEPT !.la = la]
ErrPat(alts) == [Pat(alts) EXCEPT !.err = TRUE]

\* alternative a of pattern p matches s at character index i (0-based)
AltMatchesAt(p, a, s, i) ==
    /\ i + Len(a) <= Len(s)
    /\ SubSeq(s, i + 1, i + Len(a)) = a
    /\ p.lb # {} => (i > 0 /\ s[i] \in p.lb)
    /\ p.la # {} => (i + Len(a) < Len(s) /\ s[i + Len(a) + 1] \in p.la)
    /\ p.full => (i = 0 /\ i + Len(a) = Len(s))

Min(S) == CHOOSE x \in S : \A y \in S : x <= y
Max(S) == CHOOSE x \in S : \A y \in S : y <= x
MinOr(S, none) == IF S = {} THEN none ELSE Min(S)

\* index of the first alternative matching at i, 0 if none (leftmost-first)
FirstAlt(p, s, i) ==
    MinOr({k \in 1..Len(p.alts) : AltMatchesAt(p, p.alts[k], s, i)}, 0)

NoMatch == [found |-> FALSE, start |-> 0, end |-> 0]

\* the match at character index i, as byte offsets; i < 0 stands for no match
MatchAtChar(p, s, i) ==
    IF i < 0 THEN NoMatch
    ELSE [found |-> TRUE, start |-> ByteOffset(s, i),
          end |-> ByteOffset(s, i + Len(p.alts[FirstAlt(p, s, i)]))]

\* Regex::find_from_pos / AhoCorasick leftmost-first search: the leftmost
\* match starting at character index >= from
FindFrom(p, s, from) ==
    MatchAtChar(p, s, MinOr({i \in from..Len(s) : FirstAlt(p, s, i) # 0}, -1))

\* Regex::find
Find(p, s) == FindFrom(p, s, 0)

RECURSIVE FindIterFrom(_, _, _, _)
\* Matches::next after the search returned m: an empty match advances by one
\* character and is dropped when it touches the previous match
MatchesFrom(p, s, m, last_match) ==
    IF ~m.found THEN <<>>
    ELSE (IF m.start = m.end /\ m.end = last_match THEN <<>> ELSE <<m>>)
         \o FindIterFrom(p, s,
                         CharIndex(s, m.end) + (IF m.start = m.end THEN 1 ELSE 0),
                         m.end)

\* the Matches iterator: successive non-overlapping matches
FindIterFrom(p, s, last_end, last_match) ==
    IF last_end > Len(s) THEN <<>>
    ELSE MatchesFrom(p, s, FindFrom(p, s, last_end), last_match)

\* Regex::find_iter / AhoCorasick::find_iter
FindIter(p, s) == FindIterFrom(p, s, 0, -1)

\* variant: the matches of a failing scan are taken all the same
CollectMatches_ErrIgnored(p, s) == [ok |-> TRUE, matches |-> FindIter(p, s)]

\* collect::<Result<Vec<_>, _>>() over find_iter: Err when the scan fails
CollectMatches(p, s) ==
    IF p.err THEN [ok |-> FALSE, matches |-> <<>>]
    ELSE [ok |-> TRUE, matches |-> FindIter(p, s)]

\* re.find(s) as Result<Option<Match>>: an Err is neither Ok(Some) nor Ok(None)
TryFind(p, s) ==
    IF p.err THEN [ok |-> FALSE, m |-> NoMatch] ELSE [ok |-> TRUE, m |-> Find(p, s)]

-----------------------------------------------------------------------------
(* simple_infix_tokenize_chunk_internal *)

\* the spans (byte_start, byte_end) of the matches of non-zero length
NonEmptySpans(ms) ==
    [i \in 1..Len(SelectSeq(ms, LAMBDA m : m.end - m.start > 0)) |->
        <<SelectSeq(ms, LAMBDA m : m.end - m.start > 0)[i].start,
          SelectSeq(ms, LAMBDA m : m.end - m.start > 0)[i].end>>]

\* 1. the AhoCorasick matches (literal infixes)
LiteralSpans(chunk, literal_matcher) ==
    IF literal_matcher = <<>> THEN <<>>
    ELSE NonEmptySpans(FindIter(literal_matcher[1], chunk))

\* the non-empty matches of one regex infix; a failing scan adds nothing
SpansOfResult(r) == IF r.ok THEN NonEmptySpans(r.matches) ELSE <<>>

RECURSIVE RegexSpans(_, _)
\* 2. the fancy-regex matches, pattern by pattern
RegexSpans(chunk, regex_infixes) ==
    IF regex_infixes = <<>> THEN <<>>
    ELSE SpansOfResult(CollectMatches(Head(regex_infixes), chunk))
         \o RegexSpans(chunk, Tail(regex_infixes))

AllFoundInfixSpans(chunk, literal_matcher, regex_infixes) ==
    LiteralSpans(chunk, literal_matcher) \o RegexSpans(chunk, regex_infixes)

\* the sort key (k.0, Reverse(k.1 - k.0)) : a before-or-equal b
SpanKeyLeq(a, b) ==
    \/ a[1] < b[1]
    \/ a[1] = b[1] /\ (a[2] - a[1]) >= (b[2] - b[1])

RECURSIVE InsertSpan(_, _)
InsertSpan(x, sorted) ==
    IF sorted = <<>> THEN <<x>>
    ELSE IF SpanKeyLeq(Head(sorted), x)
         THEN <<Head(sorted)>> \o InsertSpan(x, Tail(sorted))
         ELSE <<x>> \o sorted

\* variant: the candidates are swept in the order they were found in
SortSpans_DiscoveryOrder(spans) == spans

RECURSIVE SortSpans(_)
\* all_found_infix_spans.sort_by_key(...), a stable sort
SortSpans(spans) ==
    IF spans = <<>> THEN <<>>
    ELSE InsertSpan(spans[Len(spans)], SortSpans(SubSeq(spans, 1, Len(spans) - 1)))

\* variant: a span that overlaps the previous one is kept beside it, not merged
SweepStep_NoMerge(acc, span) ==
    IF span[2] > acc.current_processed_byte_end
    THEN [acc EXCEPT !.filtered_matches = Append(@, span),
                     !.current_processed_byte_end = span[2]]
    ELSE acc

\* variant: a candidate that overlaps the accepted range is dropped
SweepStep_DropOverlap(acc, span) ==
    IF span[1] >= acc.current_processed_byte_end
    THEN [acc EXCEPT !.filtered_matches = Append(@, span),
                     !.current_processed_byte_end = span[2]]
    ELSE acc

\* one iteration of the overlap sweep over a sorted candidate
SweepStep(acc, span) ==
    IF span[1] >= acc.current_processed_byte_end
    THEN [acc EXCEPT !.filtered_matches = Append(@, span),
                     !.current_processed_byte_end = span[2]]
    ELSE IF span[2] > acc.current_processed_byte_end
         THEN IF acc.filtered_matches = <<>>
              THEN [acc EXCEPT !.underflow = TRUE]     \* len() - 1 on an empty Vec
              ELSE [acc EXCEPT
                      !.filtered_matches[Len(acc.filtered_matches)][2] = span[2],
                      !.current_processed_byte_end = span[2]]
         ELSE acc

RECURSIVE Sweep(_, _)
Sweep(acc, spans) ==
    IF spans = <<>> \/ acc.underflow THEN acc
    ELSE Sweep(SweepStep(acc, Head(spans)), Tail(spans))

RECURSIVE InsertByStart(_, _)
InsertByStart(x, sorted) ==
    IF sorted = <<>> THEN <<x>>
    ELSE IF Head(sorted)[1] <= x[1]
         THEN <<Head(sorted)>> \o InsertByStart(x, Tail(sorted))
         ELSE <<x>> \o sorted

RECURSIVE SortByStart(_)
\* filtered_matches.sort_by_key(|k| k.0), a stable sort
SortByStart(spans) ==
    IF spans = <<>> THEN <<>>
    ELSE InsertByStart(spans[Len(spans)], SortByStart(SubSeq(spans, 1, Len(spans) - 1)))

SweepStart ==
    [filtered_matches |-> <<>>, current_processed_byte_end |-> 0, underflow |-> FALSE]

\* 3. sort the candidates, sweep them, re-sort the accepted spans by start
FilterMatches(all_found_infix_spans) ==
    [Sweep(SweepStart, SortSpans(all_found_infix_spans))
        EXCEPT !.filtered_matches = SortByStart(@)]

\* a part is pushed only when it is not empty
PartIfNonEmpty(part) == IF part # <<>> THEN <<part>> ELSE <<>>

RECURSIVE SliceAround_StaleEnd(_, _, _)
\* variant: last_byte_end is not advanced past the span that was pushed
SliceAround_StaleEnd(chunk, filtered_matches, last_byte_end) ==
    IF filtered_matches = <<>>
    THEN IF last_byte_end < StrLen(chunk)
         THEN PartIfNonEmpty(ByteSlice(chunk, last_byte_end, StrLen(chunk)))
         ELSE <<>>
    ELSE (IF Head(filtered_matches)[1] > last_byte_end
          THEN PartIfNonEmpty(ByteSlice(chunk, last_byte_end, Head(filtered_matches)[1]))
          ELSE <<>>)
         \o <<ByteSlice(chunk, Head(filtered_matches)[1], Head(filtered_matches)[2])>>
         \o SliceAround_StaleEnd(chunk, Tail(filtered_matches), last_byte_end)

RECURSIVE SliceAround(_, _, _)
\* 4. the loop over filtered_matches: the text before each span, then the span;
\*    after the loop the text that is left
SliceAround(chunk, filtered_matches, last_byte_end) ==
    IF filtered_matches = <<>>
    THEN IF last_byte_end < StrLen(chunk)
         THEN PartIfNonEmpty(ByteSlice(chunk, last_byte_end, StrLen(chunk)))
         ELSE <<>>
    ELSE (IF Head(filtered_matches)[1] > last_byte_end
          THEN PartIfNonEmpty(ByteSlice(chunk, last_byte_end, Head(filtered_matches)[1]))
          ELSE <<>>)
         \o <<ByteSlice(chunk, Head(filtered_matches)[1], Head(filtered_matches)[2])>>
         \o SliceAround(chunk, Tail(filtered_matches), Head(filtered_matches)[2])

\* the fallback after slicing: no token for a non-empty chunk
TokensOrChunk(tokens, chunk) ==
    IF tokens = <<>> /\ chunk # <<>> THEN <<chunk>> ELSE tokens

\* variant: with no span found the resolver returns no segment at all
SplitAtSpans_NoSpansNothing(chunk, all_found_infix_spans) ==
    IF all_found_infix_spans = <<>> THEN <<>>
    ELSE TokensOrChunk(
             SliceAround(chunk, FilterMatches(all_found_infix_spans).filtered_matches, 0),
             chunk)

\* what follows the collection of the spans
SplitAtSpans(chunk, all_found_infix_spans) ==
    IF all_found_infix_spans = <<>> THEN <<chunk>>
    ELSE TokensOrChunk(
             SliceAround(chunk, FilterMatches(all_found_infix_spans).filtered_matches, 0),
             chunk)

SimpleInfixTokenizeChunkInternal(chunk, literal_matcher, regex_infixes) ==
    IF chunk = <<>> THEN <<>>
    ELSE SplitAtSpans(chunk, AllFoundInfixSpans(chunk, literal_matcher, regex_infixes))

-----------------------------------------------------------------------------
(* tokenize_chunk.  The locals of one call are a record; each stage of the   *)
(* function is an operator from the record to the record after the stage.    *)
(* A token is the tuple (text, start_char_offset, end_char_offset).          *)

InitCall(chunk, base) ==
    [pc |-> "start", ret |-> "none",
     original_chunk |-> chunk, base_char_offset |-> base,
     tokens_with_offsets |-> <<>>,
     current_work_slice |-> chunk,
     current_relative_char_offset_in_chunk |-> 0,
     suffixes_found_reversed |-> <<>>,
     infix_parts |-> <<>>]

IdleCall == [InitCall(<<>>, 0) EXCEPT !.pc = "idle"]

\* the early return for the empty chunk
EmptyStage(st) ==
    IF st.original_chunk = <<>>
    THEN [st EXCEPT !.pc = "done", !.ret = "empty"]
    ELSE [st EXCEPT !.pc = "exception"]

RECURSIVE TokensFrom(_, _)
\* texts laid out one after another from the character offset off: each token
\* is (text, off, off + char count) and the next starts where it ends
TokensFrom(texts, off) ==
    IF texts = <<>> THEN <<>>
    ELSE << <<Head(texts), off, off + CharsCount(Head(texts))>> >>
         \o TokensFrom(Tail(texts), off + CharsCount(Head(texts)))

\* the ORTH values of the entry's attribute maps; a map without ORTH is skipped
OrthTexts(exception_rules) ==
    [i \in 1..Len(SelectSeq(exception_rules, LAMBDA m : "ORTH" \in DOMAIN m)) |->
        SelectSeq(exception_rules, LAMBDA m : "ORTH" \in DOMAIN m)[i]["ORTH"]]

\* variant: every sub-token starts at the base, the offset is not advanced
ExceptionTokens_NoAdvance(exception_rules, base) ==
    [i \in 1..Len(OrthTexts(exception_rules)) |->
        <<OrthTexts(exception_rules)[i], base,
          base + CharsCount(OrthTexts(exception_rules)[i])>>]

\* the loop over the entry: the sub-tokens with contiguous spans from the base
ExceptionTokens(exception_rules, base) == TokensFrom(OrthTexts(exception_rules), base)

TokenTexts(tokens) == [i \in 1..Len(tokens) |-> tokens[i][1]]

\* variant: the entry is taken without comparing lengths
ExceptionCovers_Unchecked(tokens, chunk) == TRUE

\* the exception entry covers the chunk: the character counts agree
ExceptionCovers(tokens, chunk) == SumLens(TokenTexts(tokens)) = CharsCount(chunk)

\* variant: the tokens of an entry that does not cover the chunk are kept
ExceptionResult_KeepPartial(st, toks) ==
    IF ExceptionCovers(toks, st.original_chunk)
    THEN [st EXCEPT !.tokens_with_offsets = toks, !.pc = "done", !.ret = "exception"]
    ELSE [st EXCEPT !.tokens_with_offsets = toks, !.pc = "token_match"]

\* the decision once the entry's tokens are pushed
ExceptionResult(st, toks) ==
    IF ExceptionCovers(toks, st.original_chunk)
    THEN [st EXCEPT !.tokens_with_offsets = toks, !.pc = "done", !.ret = "exception"]
    ELSE [st EXCEPT !.tokens_with_offsets = <<>>, !.pc = "token_match"]

\* variant: the exceptions are not looked up
ExceptionStage_Skipped(st, rules) == [st EXCEPT !.pc = "token_match"]

\* 1. exact match in the exceptions
ExceptionStage(st, rules) ==
    IF st.original_chunk \in DOMAIN rules.exceptions
    THEN ExceptionResult(st, ExceptionTokens(rules.exceptions[st.original_chunk],
                                             st.base_char_offset))
    ELSE [st EXCEPT !.pc = "token_match"]

\* variant: a match from byte 0 counts, wherever it ends
IsWholeMatch_StartOnly(r, chunk) == r.ok /\ r.m.found /\ r.m.start = 0

\* Ok(Some(mat)) with mat.start() == 0 && mat.end() == original_chunk.len()
IsWholeMatch(r, chunk) == r.ok /\ r.m.found /\ r.m.start = 0 /\ r.m.end = StrLen(chunk)

\* the matcher exists and its leftmost match spans the whole chunk
WholeMatch(matcher, chunk) ==
    /\ matcher # <<>>
    /\ IsWholeMatch(TryFind(matcher[1], chunk), chunk)

WholeToken(st) ==
    << <<st.original_chunk, st.base_char_offset,
         st.base_char_offset + CharsCount(st.original_chunk)>> >>

\* 2. token_match
TokenMatchStage(st, rules) ==
    IF WholeMatch(rules.token_match, st.original_chunk)
    THEN [st EXCEPT !.tokens_with_offsets = WholeToken(st), !.pc = "done",
                    !.ret = "token_match"]
    ELSE [st EXCEPT !.pc = "url_match"]

\* 3. url_match
UrlMatchStage(st, rules) ==
    IF WholeMatch(rules.url_match, st.original_chunk)
    THEN [st EXCEPT !.tokens_with_offsets = WholeToken(st), !.pc = "done",
                    !.ret = "url_match"]
    ELSE [st EXCEPT !.pc = "prefix"]

\* variant: a match at the start counts even when it is empty
IsPrefixHit_EmptyAccepted(r) == r.ok /\ r.m.found /\ r.m.start = 0

\* the match arm: Ok(Some(mat)) if mat.start() == 0 && !mat.as_str().is_empty()
IsPrefixHit(r) == r.ok /\ r.m.found /\ r.m.start = 0 /\ r.m.end > r.m.start

PrefixHit(re_prefix, slice) == IsPrefixHit(TryFind(re_prefix, slice))

\* variant: the last prefix pattern that hits is taken
FirstPrefix_LastHit(prefixes, slice) ==
    Max({k \in 1..Len(prefixes) : PrefixHit(prefixes[k], slice)} \cup {0})

\* the first prefix pattern, in declared order, that hits; 0 if none does
FirstPrefix(prefixes, slice) ==
    MinOr({k \in 1..Len(prefixes) : PrefixHit(prefixes[k], slice)}, 0)

\* variant: the relative offset advances by the prefix's bytes
PushPrefix_ByteOffset(st, prefix_text, off, rest) ==
    [st EXCEPT
       !.tokens_with_offsets = Append(@, <<prefix_text, off, off + CharsCount(prefix_text)>>),
       !.current_relative_char_offset_in_chunk = @ + StrLen(prefix_text),
       !.current_work_slice = rest]

\* the body of the match arm: push the prefix, advance the slice past it
PushPrefix(st, prefix_text, off, rest) ==
    [st EXCEPT
       !.tokens_with_offsets = Append(@, <<prefix_text, off, off + CharsCount(prefix_text)>>),
       !.current_relative_char_offset_in_chunk = @ + CharsCount(prefix_text),
       !.current_work_slice = rest]

StripPrefix(st, mat) ==
    PushPrefix(st, ByteSlice(st.current_work_slice, mat.start, mat.end),
               st.base_char_offset + st.current_relative_char_offset_in_chunk,
               ByteSlice(st.current_work_slice, mat.end, StrLen(st.current_work_slice)))

PrefixScan(st, prefixes, k) ==
    IF k = 0 THEN [st EXCEPT !.pc = "suffix"]
    ELSE StripPrefix(st, Find(prefixes[k], st.current_work_slice))

\* variant: once a prefix is peeled, a slice the whole-token matcher accepts
\* in full becomes one token
PrefixIteration_RetestWhole(st, rules) ==
    IF st.current_work_slice = <<>> THEN [st EXCEPT !.pc = "suffix"]
    ELSE IF st.tokens_with_offsets # <<>> /\ WholeMatch(rules.token_match, st.current_work_slice)
         THEN PushPrefix(st, st.current_work_slice,
                         st.base_char_offset + st.current_relative_char_offset_in_chunk, <<>>)
         ELSE PrefixScan(st, rules.prefixes, FirstPrefix(rules.prefixes, st.current_work_slice))

\* one iteration of the prefix loop
PrefixIteration(st, rules) ==
    IF st.current_work_slice = <<>> THEN [st EXCEPT !.pc = "suffix"]
    ELSE PrefixScan(st, rules.prefixes, FirstPrefix(rules.prefixes, st.current_work_slice))

\* variant: a non-empty suffix match counts wherever it ends
IsAnchored_Anywhere(m, slice) == m.end > m.start

\* the closure of the find: m.end() == current_work_slice.len() && non-empty
IsAnchored(m, slice) == m.end = StrLen(slice) /\ m.end > m.start

\* the matches of the collected scan that end at the end of the slice
AnchoredIn(r, slice) ==
    IF ~r.ok THEN {}
    ELSE {i \in 1..Len(r.matches) : IsAnchored(r.matches[i], slice)}

AnchoredSuffixMatches(re_suffix, slice) ==
    AnchoredIn(CollectMatches(re_suffix, slice), slice)

\* variant: the last suffix pattern with an anchored match is taken
FirstSuffix_LastAnchored(suffixes, slice) ==
    Max({k \in 1..Len(suffixes) : AnchoredSuffixMatches(suffixes[k], slice) # {}} \cup {0})

\* the first suffix pattern, in declared order, with an anchored match
FirstSuffix(suffixes, slice) ==
    MinOr({k \in 1..Len(suffixes) : AnchoredSuffixMatches(suffixes[k], slice) # {}}, 0)

\* matches.into_iter().rev().find(...) : the last anchored match
SuffixMatch(re_suffix, slice) ==
    FindIter(re_suffix, slice)[Max(AnchoredSuffixMatches(re_suffix, slice))]

\* the body of the if let: record the suffix, cut the slice before it
PushSuffix(st, suffix_text, rest) ==
    [st EXCEPT !.suffixes_found_reversed = Append(@, suffix_text),
               !.current_work_slice = rest,
               !.pc = IF rest = <<>> THEN "infix" ELSE "suffix"]

StripSuffix(st, mat) ==
    PushSuffix(st, ByteSlice(st.current_work_slice, mat.start, mat.end),
               ByteSlice(st.current_work_slice, 0, mat.start))

SuffixScan(st, suffixes, k) ==
    IF k = 0 THEN [st EXCEPT !.pc = "infix"]
    ELSE StripSuffix(st, SuffixMatch(suffixes[k], st.current_work_slice))

\* one iteration of the suffix loop (the loop is entered only with a
\* non-empty slice and is left as soon as the slice is empty)
SuffixIteration(st, rules) ==
    IF st.current_work_slice = <<>> THEN [st EXCEPT !.pc = "infix"]
    ELSE SuffixScan(st, rules.suffixes, FirstSuffix(rules.suffixes, st.current_work_slice))

\* the loop over infix_parts
PushInfixParts(st, infix_parts) ==
    [st EXCEPT
       !.infix_parts = infix_parts,
       !.tokens_with_offsets = @ \o TokensFrom(infix_parts,
           st.base_char_offset + st.current_relative_char_offset_in_chunk),
       !.current_relative_char_offset_in_chunk = @ + SumLens(infix_parts),
       !.pc = "reattach"]

\* the infix tokenization of what is left
InfixStage(st, rules) ==
    IF st.current_work_slice # <<>>
    THEN PushInfixParts(st, SimpleInfixTokenizeChunkInternal(st.current_work_slice,
                                rules.literal_infix_matcher, rules.regex_infixes))
    ELSE [st EXCEPT !.pc = "reattach"]

\* variant: the suffix tokens are put in front of what was emitted before
PushSuffixes_InFront(st, suffixes) ==
    [st EXCEPT
       !.tokens_with_offsets = TokensFrom(suffixes,
           st.base_char_offset + st.current_relative_char_offset_in_chunk) \o @,
       !.current_relative_char_offset_in_chunk = @ + SumLens(suffixes),
       !.pc = "fallback"]

\* the loop that pushes the suffixes
PushSuffixes(st, suffixes) ==
    [st EXCEPT
       !.tokens_with_offsets = @ \o TokensFrom(suffixes,
           st.base_char_offset + st.current_relative_char_offset_in_chunk),
       !.current_relative_char_offset_in_chunk = @ + SumLens(suffixes),
       !.pc = "fallback"]

\* variant: the suffixes are re-attached in the order they were found in
ReattachStage_FoundOrder(st) == PushSuffixes(st, st.suffixes_found_reversed)

\* the suffixes are re-attached in reverse of the order they were found in
ReattachStage(st) == PushSuffixes(st, Reverse(st.suffixes_found_reversed))

\* the fallback: nothing was split off, the whole chunk is one token
FallbackStage(st) ==
    IF st.tokens_with_offsets = <<>> /\ st.original_chunk # <<>>
    THEN [st EXCEPT !.tokens_with_offsets = WholeToken(st), !.pc = "done",
                    !.ret = "fallback"]
    ELSE [st EXCEPT !.pc = "done", !.ret = "general"]

ChunkStep(st, rules) ==
    CASE st.pc = "start" -> EmptyStage(st)
      [] st.pc = "exception" -> ExceptionStage(st, rules)
      [] st.pc = "token_match" -> TokenMatchStage(st, rules)
      [] st.pc = "url_match" -> UrlMatchStage(st, rules)
      [] st.pc = "prefix" -> PrefixIteration(st, rules)
      [] st.pc = "suffix" -> SuffixIteration(st, rules)
      [] st.pc = "infix" -> InfixStage(st, rules)
      [] st.pc = "reattach" -> ReattachStage(st)
      [] st.pc = "fallback" -> FallbackStage(st)

RECURSIVE RunChunk(_, _)
RunChunk(st, rules) ==
    IF st.pc = "done" THEN st ELSE RunChunk(ChunkStep(st, rules), rules)

\* tokenize_chunk(original_chunk, rules, base_char_offset)
TokenizeChunk(original_chunk, rules, base_char_offset) ==
    RunChunk(InitCall(original_chunk, base_char_offset), rules).tokens_with_offsets

-----------------------------------------------------------------------------
(* advanced_tokenize_sentence_parallel *)

IsWs(c) == c \in Whitespace

\* the length of the leading run of non-whitespace characters of s
RunLen(s) == MinOr({i \in 1..Len(s) : IsWs(s[i])}, Len(s) + 1) - 1

RECURSIVE SplitWhitespace(_)
\* str::split_whitespace : the maximal runs of non-whitespace characters
SplitWhitespace(s) ==
    IF s = <<>> THEN <<>>
    ELSE (IF IsWs(Head(s)) THEN <<>> ELSE <<SubSeq(s, 1, RunLen(s))>>)
         \o SplitWhitespace(SubSeq(s, Max({1, RunLen(s)}) + 1, Len(s)))

\* str::find : the byte offset of the first occurrence of needle, -1 for None
ByteOffsetOrNone(s, i) == IF i < 0 THEN -1 ELSE ByteOffset(s, i)

StrFind(haystack, needle) ==
    ByteOffsetOrNone(haystack,
                     MinOr({i \in 0..(Len(haystack) - Len(needle)) :
                                SubSeq(haystack, i + 1, i + Len(needle)) = needle}, -1))

RECURSIVE ChunksInfo(_, _, _, _)
\* variant: the chunk's own characters are not added to the char offset
ChunkAt_ChunkNotCounted(sentence, chunks, byte_start_of_chunk, char_offset) ==
    << <<char_offset, Head(chunks)>> >>
    \o ChunksInfo(sentence, Tail(chunks),
                  byte_start_of_chunk + StrLen(Head(chunks)),
                  char_offset)

\* the body of the loop once the chunk's byte start and char offset are known
ChunkAt(sentence, chunks, byte_start_of_chunk, char_offset) ==
    << <<char_offset, Head(chunks)>> >>
    \o ChunksInfo(sentence, Tail(chunks),
                  byte_start_of_chunk + StrLen(Head(chunks)),
                  char_offset + CharsCount(Head(chunks)))

\* variant: the whitespace before the chunk is counted in bytes
ChunkFrom_ByteOffset(sentence, chunks, current_byte_offset, current_char_offset_in_sentence, byte_start_of_chunk) ==
    ChunkAt(sentence, chunks, byte_start_of_chunk,
            current_char_offset_in_sentence + (byte_start_of_chunk - current_byte_offset))

\* the whitespace before the chunk is counted in characters
ChunkFrom(sentence, chunks, current_byte_offset, current_char_offset_in_sentence, byte_start_of_chunk) ==
    ChunkAt(sentence, chunks, byte_start_of_chunk,
            current_char_offset_in_sentence
            + CharsCount(ByteSlice(sentence, current_byte_offset, byte_start_of_chunk)))

\* the loop that records (char_offset_in_sentence, chunk_text) for every chunk
ChunksInfo(sentence, chunks, current_byte_offset, current_char_offset_in_sentence) ==
    IF chunks = <<>> THEN <<>>
    ELSE ChunkFrom(sentence, chunks, current_byte_offset,
                   current_char_offset_in_sentence,
                   current_byte_offset
                   + StrFind(ByteSlice(sentence, current_byte_offset, StrLen(sentence)),
                             Head(chunks)))

RECURSIVE InsertByOffset(_, _)
InsertByOffset(x, sorted) ==
    IF sorted = <<>> THEN <<x>>
    ELSE IF Head(sorted)[1] <= x[1]
         THEN <<Head(sorted)>> \o InsertByOffset(x, Tail(sorted))
         ELSE <<x>> \o sorted

\* variant: the results stay in completion order
SortByOffset_CompletionOrder(rs) == rs

RECURSIVE SortByOffset(_)
\* sorted_tokenized_chunks.sort_by_key(|(offset, _)| *offset), a stable sort
SortByOffset(rs) ==
    IF rs = <<>> THEN <<>>
    ELSE InsertByOffset(rs[Len(rs)], SortByOffset(SubSeq(rs, 1, Len(rs) - 1)))

RECURSIVE Flatten(_)
\* final_tokens_for_sentence.extend(tokens_list) for every sorted result
Flatten(rs) == IF rs = <<>> THEN <<>> ELSE Head(rs)[2] \o Flatten(Tail(rs))

-----------------------------------------------------------------------------
(* main: the lines of the content *)

\* the index of the first newline of content, Len + 1 if there is none
FirstNewline(content) ==
    MinOr({i \in 1..Len(content) : content[i] = "N"}, Len(content) + 1)

RECURSIVE Lines(_)
\* str::lines : the content split at "N" (the newline); a final newline
\* does not open another line
Lines(content) ==
    IF content = <<>> THEN <<>>
    ELSE <<SubSeq(content, 1, FirstNewline(content) - 1)>>
         \o Lines(SubSeq(content, FirstNewline(content) + 1, Len(content)))

EndsWithNewline(content) == content # <<>> /\ content[Len(content)] = "N"

-----------------------------------------------------------------------------
(* The rule sets the model runs with.  TokenizerRules is a record of the    *)
(* seven fields of the struct; an Option is a sequence of length 0 or 1.   *)

Orth(text) == [ORTH |-> text]
OrthNorm(text) == [ORTH |-> text, NORM |-> <<"a">>]
NormOnly == [NORM |-> <<"a">>]

NoExceptions == [k \in {} |-> <<>>]

\* entries whose surface forms spell their key
ExceptionsSpelled ==
    [k \in {<<"a", "-", "a">>, <<".", ".">>, <<"E", ".">>} |->
        CASE k = <<"a", "-", "a">> -> <<OrthNorm(<<"a", "-">>), Orth(<<"a">>)>>
          [] k = <<".", ".">> -> <<Orth(<<".">>), Orth(<<".">>)>>
          [] k = <<"E", ".">> -> <<OrthNorm(<<"E">>), NormOnly, Orth(<<".">>)>>]

\* stale entries: too short, too long, empty, without any surface form
ExceptionsStale ==
    [k \in {<<"a", "-">>, <<"-", "a">>, <<"E">>, <<".", "a">>} |->
        CASE k = <<"a", "-">> -> <<Orth(<<"a">>)>>
          [] k = <<"-", "a">> -> <<Orth(<<"-">>), Orth(<<"a">>), Orth(<<"a">>)>>
          [] k = <<"E">> -> <<>>
          [] k = <<".", "a">> -> <<NormOnly>>]

\* entries of the right length that do not spell their key
ExceptionsMisspelled ==
    [k \in {<<"a", "a">>, <<"E">>} |->
        CASE k = <<"a", "a">> -> <<Orth(<<"a">>), Orth(<<".">>)>>
          [] k = <<"E">> -> <<Orth(<<"a">>)>>]

MkRules(prefixes, suffixes, regex_infixes, literal_infix_matcher, token_match, url_match, exceptions) ==
    [prefixes |-> prefixes, suffixes |-> suffixes, regex_infixes |-> regex_infixes,
     literal_infix_matcher |-> literal_infix_matcher, token_match |-> token_match,
     url_match |-> url_match, exceptions |-> exceptions]

RulesNone == MkRules(<<>>, <<>>, <<>>, <<>>, <<>>, <<>>, NoExceptions)

RulesPunct ==
    MkRules(<<Pat(<< <<"-">> >>)>>,
            <<Pat(<< <<".">> >>)>>,
            <<Pat(<< <<"-", ".">> >>)>>,
            <<Pat(<< <<"-", "-">>, <<"-">> >>)>>,
            <<FullPat(<< <<".", ".">>, <<"a", ".", "a">> >>)>>,
            <<>>,
            ExceptionsSpelled)

RulesStale ==
    MkRules(<<Pat(<< <<"E">> >>), Pat(<< <<"-", "-">>, <<"-">> >>)>>,
            <<Pat(<< <<"a", ".">> >>), LbPat(<< <<".">> >>, {"a", "."})>>,
            <<>>,
            <<Pat(<< <<"-">> >>)>>,
            <<Pat(<< <<"a">>, <<"a", "a">> >>)>>,
            <<FullPat(<< <<"a", ".", "a">>, <<"E", "E">> >>)>>,
            ExceptionsStale)

RulesMisspelled ==
    MkRules(<<Pat(<< <<"-">> >>)>>,
            <<Pat(<< <<".">> >>)>>,
            <<>>, <<>>, <<>>, <<>>,
            ExceptionsMisspelled)

RulesInfix ==
    MkRules(<<>>, <<>>,
            <<Pat(<< <<"-", ".">> >>), LbPat(<< <<".">> >>, {"a"}), Pat(<< <<>> >>),
              LaPat(<< <<"a">> >>, {"E"})>>,
            <<Pat(<< <<"-", "-">>, <<"-">> >>)>>,
            <<>>, <<>>, NoExceptions)

RulesUrl ==
    MkRules(<<Pat(<< <<>>, <<"-">> >>), LaPat(<< <<"-">> >>, {"a", "-"})>>,
            <<Pat(<< <<"a">> >>), Pat(<< <<"E">>, <<"E", "E">> >>)>>,
            <<Pat(<< <<".", ".">> >>)>>,
            <<Pat(<< <<".">> >>)>>,
            <<>>,
            <<Pat(<< <<"a", ".">>, <<"-">> >>)>>,
            ExceptionsSpelled)

\* patterns whose search fails at run time stand before patterns that work
RulesErr ==
    MkRules(<<ErrPat(<< <<"-">> >>), Pat(<< <<"-">> >>)>>,
            <<ErrPat(<< <<".">> >>), Pat(<< <<".">> >>)>>,
            <<ErrPat(<< <<"a">> >>), Pat(<< <<"-">> >>)>>,
            <<>>,
            <<ErrPat(<< <<"a">>, <<"a", "a">>, <<"a", "a", "a">> >>)>>,
            <<ErrPat(<< <<"E">> >>)>>,
            NoExceptions)

\* a whole-token matcher for currency amounts and a suffix pattern for "!"
CurrencyAmounts == FullPat(<< <<"$", "5", ".", "0", "0">>, <<"$", "5">> >>)

RulesCurrency ==
    MkRules(<<>>, <<Pat(<< <<"!">> >>)>>, <<>>, <<>>, <<CurrencyAmounts>>, <<>>,
            NoExceptions)

\* the same with the prefix pattern for "$" of the English prefix list
RulesCurrencyPrefix ==
    MkRules(<<Pat(<< <<"$">> >>)>>, <<Pat(<< <<"!">> >>)>>, <<>>, <<>>,
            <<CurrencyAmounts>>, <<>>, NoExceptions)

\* the chunk "$5.00!"
CurrencyChunk == <<"$", "5", ".", "0", "0", "!">>

\* several prefix patterns hit at the same start and several suffix patterns
\* anchor at the same end; the occurrences of the first suffix pattern overlap
RulesLayered ==
    MkRules(<<Pat(<< <<"-">> >>), Pat(<< <<"-", "-">>, <<"E">> >>)>>,
            <<Pat(<< <<"a", "a">> >>), Pat(<< <<".">> >>), Pat(<< <<".", ".">> >>)>>,
            <<>>, <<>>, <<>>, <<>>, NoExceptions)

RuleSets ==
    {RulesNone, RulesPunct, RulesStale, RulesMisspelled, RulesInfix, RulesUrl, RulesErr,
     RulesCurrency, RulesCurrencyPrefix, RulesLayered}
\* "don't" -> do + n't (as the verb loop of the exception table builds it) and
\* a suffix pattern for the full stop
ExceptionsDont ==
    [k \in {<<"d", "o", "n", "'", "t">>} |->
        <<OrthNorm(<<"d", "o">>), OrthNorm(<<"n", "'", "t">>)>>]

RulesExample ==
    MkRules(<<>>, <<Pat(<< <<".">> >>)>>, <<>>, <<>>, <<>>, <<>>, ExceptionsDont)

LineRuleSets == {RulesNone, RulesPunct, RulesExample}

\* the line "don't stop."
ExampleLine == <<"d", "o", "n", "'", "t", "S", "s", "t", "o", "p", ".">>

\* a chunk with a prefix, an infix and two different suffixes under RulesStale
LayeredChunk == <<"E", "a", "-", "a", ".", ".">>

Chunks == StringsUpTo(ChunkChar, MaxChunkLen) \cup {CurrencyChunk, LayeredChunk}
Contents == StringsUpTo(ContentChar, MaxContentLen) \cup {ExampleLine}

-----------------------------------------------------------------------------
(* State *)

VARIABLES
    rules,                       \* the TokenizerRules built once and shared
    call,                        \* the locals of a tokenize_chunk call under study
    content,                     \* the text read from the file
    pc,                          \* the driver's position
    line_idx,                    \* the number of lines the for loop has taken
    current_global_char_offset,
    all_tokens,
    sentence,                    \* the line the orchestrator works on
    chunks_info,
    pending,                     \* the chunk tasks that have not completed
    tokenized_chunks_unordered,  \* the collected results
    task_tokens,                 \* tokens_with_offsets of each completed task
    tokens_for_line              \* what the orchestrator returned

vars == <<rules, call, content, pc, line_idx, current_global_char_offset,
          all_tokens, sentence, chunks_info, pending,
          tokenized_chunks_unordered, task_tokens, tokens_for_line>>

driverVars == <<content, pc, line_idx, current_global_char_offset, all_tokens,
                sentence, chunks_info, pending, tokenized_chunks_unordered,
                task_tokens, tokens_for_line>>

-----------------------------------------------------------------------------
(* The driver and the orchestrator *)

Init ==
    /\ rules \in LineRuleSets
    /\ call = IdleCall
    /\ content \in Contents
    /\ pc = IF content = <<>> THEN "done" ELSE "loop"
    /\ line_idx = 0
    /\ current_global_char_offset = 0
    /\ all_tokens = <<>>
    /\ sentence = <<>>
    /\ chunks_info = <<>>
    /\ pending = {}
    /\ tokenized_chunks_unordered = <<>>
    /\ task_tokens = <<>>
    /\ tokens_for_line = <<>>

\* the for loop takes the next line and the orchestrator splits it into chunks
StartLine ==
    /\ pc = "loop"
    /\ line_idx < Len(Lines(content))
    /\ LET line == Lines(content)[line_idx + 1]
           info == ChunksInfo(line, SplitWhitespace(line), 0, 0)
       IN /\ sentence' = line
          /\ chunks_info' = info
          /\ pending' = 1..Len(info)
          /\ task_tokens' = [i \in 1..Len(info) |-> <<>>]
    /\ tokenized_chunks_unordered' = <<>>
    /\ tokens_for_line' = <<>>
    /\ line_idx' = line_idx + 1
    /\ pc' = "map"
    /\ UNCHANGED <<rules, call, content, current_global_char_offset, all_tokens>>

\* variant: the call memoizes the chunk as a new exception entry
RulesAfterCall_Memoized(rs, chunk) ==
    [rs EXCEPT !.exceptions =
        [k \in (DOMAIN rs.exceptions) \cup {chunk} |->
            IF k \in DOMAIN rs.exceptions THEN rs.exceptions[k] ELSE <<Orth(chunk)>>]]

\* the rule set after a tokenize_chunk call: the call holds rules as a shared
\* reference (&TokenizerRules behind an Arc) and assigns to none of its fields
RulesAfterCall(rs, chunk) == rs

\* one task of the parallel map completes; its result is collected
ChunkTask(i) ==
    /\ pc = "map"
    /\ i \in pending
    /\ LET chunk_char_offset_in_sentence == chunks_info[i][1]
           chunk_str == chunks_info[i][2]
           base_char_offset_for_chunk ==
               current_global_char_offset + chunk_char_offset_in_sentence
           tokens_with_offsets == TokenizeChunk(chunk_str, rules,
                                                base_char_offset_for_chunk)
           tokens_only == TokenTexts(tokens_with_offsets)
       IN /\ tokenized_chunks_unordered' =
                 Append(tokenized_chunks_unordered,
                        <<chunk_char_offset_in_sentence, tokens_only>>)
          /\ task_tokens' = [task_tokens EXCEPT ![i] = tokens_with_offsets]
          /\ rules' = RulesAfterCall(rules, chunk_str)
    /\ pending' = pending \ {i}
    /\ UNCHANGED <<call, content, pc, line_idx, current_global_char_offset,
                   all_tokens, sentence, chunks_info, tokens_for_line>>

\* every task is done: sort by offset, flatten, return
Reassemble ==
    /\ pc = "map"
    /\ pending = {}
    /\ tokens_for_line' = Flatten(SortByOffset(tokenized_chunks_unordered))
    /\ pc' = "returned"
    /\ UNCHANGED <<rules, call, content, line_idx, current_global_char_offset,
                   all_tokens, sentence, chunks_info, pending,
                   tokenized_chunks_unordered, task_tokens>>

\* variant: the tokens of the line are put in front of the document stream
AdvanceLine_InFront ==
    /\ pc = "returned"
    /\ all_tokens' = tokens_for_line \o all_tokens
    /\ current_global_char_offset' =
           current_global_char_offset + CharsCount(sentence)
           + (IF sentence # <<>> \/ EndsWithNewline(content) THEN 1 ELSE 0)
    /\ pc' = "loop"
    /\ UNCHANGED <<rules, call, content, line_idx, sentence, chunks_info, pending,
                   tokenized_chunks_unordered, task_tokens, tokens_for_line>>

\* the rest of the loop body: extend all_tokens, advance the running offset
AdvanceLine ==
    /\ pc = "returned"
    /\ all_tokens' = all_tokens \o tokens_for_line
    /\ current_global_char_offset' =
           current_global_char_offset + CharsCount(sentence)
           + (IF sentence # <<>> \/ EndsWithNewline(content) THEN 1 ELSE 0)
    /\ pc' = "loop"
    /\ UNCHANGED <<rules, call, content, line_idx, sentence, chunks_info, pending,
                   tokenized_chunks_unordered, task_tokens, tokens_for_line>>

\* no line is left
Finish ==
    /\ pc = "loop"
    /\ line_idx = Len(Lines(content))
    /\ pc' = "done"
    /\ UNCHANGED <<rules, call, content, line_idx, current_global_char_offset,
                   all_tokens, sentence, chunks_info, pending,
                   tokenized_chunks_unordered, task_tokens, tokens_for_line>>

Next ==
    \/ StartLine
    \/ \E i \in pending : ChunkTask(i)
    \/ Reassemble
    \/ AdvanceLine
    \/ Finish

Spec == Init /\ [][Next]_vars

-----------------------------------------------------------------------------
(* main from its first statement: TokenizerRules::new compiles the pattern   *)
(* lists component by component and panics on the first pattern that does    *)
(* not compile; then the content is read and the lines are tokenized.        *)

\* the components of TokenizerRules that are compiled, in the order of new()
Components ==
    <<"prefixes", "suffixes", "regex_infixes", "literal_infix_matcher",
      "token_match", "url_match">>

\* what the pattern lists compile to when every pattern is valid
RulesFull ==
    MkRules(<<Pat(<< <<"-">> >>)>>,
            <<Pat(<< <<".">> >>)>>,
            <<Pat(<< <<"-", ".">> >>)>>,
            <<Pat(<< <<"-", "-">>, <<"-">> >>)>>,
            <<FullPat(<< <<".", ".">>, <<"a", ".", "a">> >>)>>,
            <<FullPat(<< <<"a", "a">> >>)>>,
            ExceptionsSpelled)

\* the components that hold a pattern that does not compile
InvalidSets == {S \in SUBSET {Components[i] : i \in 1..Len(Components)} : Cardinality(S) <= 2}

\* the rule set before new() has returned
NotBuilt == [built |-> FALSE]

\* the locals of TokenizerRules::new; at says which component is compiled next
NewCall(invalid) ==
    [pc |-> "new", at |-> 1, invalid |-> invalid,
     prefixes |-> <<>>, suffixes |-> <<>>, regex_infixes |-> <<>>,
     literal_infix_matcher |-> <<>>, token_match |-> <<>>, url_match |-> <<>>]

InitMain ==
    /\ rules = NotBuilt
    /\ \E invalid \in InvalidSets : call = NewCall(invalid)
    /\ content = <<>>
    /\ pc = "new"
    /\ line_idx = 0
    /\ current_global_char_offset = 0
    /\ all_tokens = <<>>
    /\ sentence = <<>>
    /\ chunks_info = <<>>
    /\ pending = {}
    /\ tokenized_chunks_unordered = <<>>
    /\ task_tokens = <<>>
    /\ tokens_for_line = <<>>

\* variant: a component that does not compile is left empty and new() goes on
Compiled_SkipInvalid(st, c) ==
    IF c \in st.invalid
    THEN [st EXCEPT !.at = @ + 1]
    ELSE [st EXCEPT ![c] = RulesFull[c], !.at = @ + 1]

\* Regex::new(..).unwrap_or_else(|e| panic!(..)) over the list of component c
Compiled(st, c) ==
    IF c \in st.invalid
    THEN [st EXCEPT !.pc = "panicked"]
    ELSE [st EXCEPT ![c] = RulesFull[c], !.at = @ + 1]

\* new() compiles its next component; the panic ends the process
CompileComponent(c) ==
    /\ pc = "new"
    /\ call.pc = "new"
    /\ call.at <= Len(Components)
    /\ Components[call.at] = c
    /\ call' = Compiled(call, c)
    /\ pc' = IF call'.pc = "panicked" THEN "panicked" ELSE "new"
    /\ UNCHANGED <<rules, content, line_idx, current_global_char_offset, all_tokens,
                   sentence, chunks_info, pending, tokenized_chunks_unordered,
                   task_tokens, tokens_for_line>>

CompilePrefixes == CompileComponent("prefixes")
CompileSuffixes == CompileComponent("suffixes")
CompileRegexInfixes == CompileComponent("regex_infixes")
BuildLiteralInfixMatcher == CompileComponent("literal_infix_matcher")
CompileTokenMatch == CompileComponent("token_match")
CompileUrlMatch == CompileComponent("url_match")

\* the struct new() returns from its locals and the exception table
BuiltRules(st) ==
    MkRules(st.prefixes, st.suffixes, st.regex_infixes, st.literal_infix_matcher,
            st.token_match, st.url_match, ExceptionsSpelled)

\* let rules = TokenizerRules::new();
ReturnRules ==
    /\ pc = "new"
    /\ call.pc = "new"
    /\ call.at > Len(Components)
    /\ rules' = BuiltRules(call)
    /\ call' = [call EXCEPT !.pc = "returned"]
    /\ pc' = "read"
    /\ UNCHANGED <<content, line_idx, current_global_char_offset, all_tokens,
                   sentence, chunks_info, pending, tokenized_chunks_unordered,
                   task_tokens, tokens_for_line>>

\* fs::read_to_string and the return for an empty file
ReadContent ==
    /\ pc = "read"
    /\ content' \in Contents
    /\ pc' = IF content' = <<>> THEN "done" ELSE "loop"
    /\ UNCHANGED <<rules, call, line_idx, current_global_char_offset, all_tokens,
                   sentence, chunks_info, pending, tokenized_chunks_unordered,
                   task_tokens, tokens_for_line>>

NextMain ==
    \/ CompilePrefixes
    \/ CompileSuffixes
    \/ CompileRegexInfixes
    \/ BuildLiteralInfixMatcher
    \/ CompileTokenMatch
    \/ CompileUrlMatch
    \/ ReturnRules
    \/ ReadContent
    \/ StartLine
    \/ \E i \in pending : ChunkTask(i)
    \/ Reassemble
    \/ AdvanceLine
    \/ Finish

SpecMain == InitMain /\ [][NextMain]_vars

-----------------------------------------------------------------------------
(* One tokenize_chunk call, stage by stage *)

InitChunk ==
    /\ rules \in RuleSets
    /\ \E chunk \in Chunks, base \in 0..MaxBase : call = InitCall(chunk, base)
    /\ content = <<>>
    /\ pc = "idle"
    /\ line_idx = 0
    /\ current_global_char_offset = 0
    /\ all_tokens = <<>>
    /\ sentence = <<>>
    /\ chunks_info = <<>>
    /\ pending = {}
    /\ tokenized_chunks_unordered = <<>>
    /\ task_tokens = <<>>
    /\ tokens_for_line = <<>>

CallEmptyCheck ==
    /\ call.pc = "start"
    /\ call' = EmptyStage(call)
    /\ UNCHANGED <<rules, driverVars>>

CallException ==
    /\ call.pc = "exception"
    /\ call' = ExceptionStage(call, rules)
    /\ UNCHANGED <<rules, driverVars>>

CallTokenMatch ==
    /\ call.pc = "token_match"
    /\ call' = TokenMatchStage(call, rules)
    /\ UNCHANGED <<rules, driverVars>>

CallUrlMatch ==
    /\ call.pc = "url_match"
    /\ call' = UrlMatchStage(call, rules)
    /\ UNCHANGED <<rules, driverVars>>

CallPrefixIteration ==
    /\ call.pc = "prefix"
    /\ call' = PrefixIteration(call, rules)
    /\ UNCHANGED <<rules, driverVars>>

CallSuffixIteration ==
    /\ call.pc = "suffix"
    /\ call' = SuffixIteration(call, rules)
    /\ UNCHANGED <<rules, driverVars>>

CallInfix ==
    /\ call.pc = "infix"
    /\ call' = InfixStage(call, rules)
    /\ UNCHANGED <<rules, driverVars>>

CallReattach ==
    /\ call.pc = "reattach"
    /\ call' = ReattachStage(call)
    /\ UNCHANGED <<rules, driverVars>>

CallFallback ==
    /\ call.pc = "fallback"
    /\ call' = FallbackStage(call)
    /\ UNCHANGED <<rules, driverVars>>

NextChunk ==
    \/ CallEmptyCheck
    \/ CallException
    \/ CallTokenMatch
    \/ CallUrlMatch
    \/ CallPrefixIteration
    \/ CallSuffixIteration
    \/ CallInfix
    \/ CallReattach
    \/ CallFallback

SpecChunk == InitChunk /\ [][NextChunk]_vars

-----------------------------------------------------------------------------
(* Runs taken to completion: a run of the driver over a content, or one     *)
(* tokenize_chunk call.  The driver and the call are sequential code and    *)
(* rayon runs every task of the parallel map, so while a run is under way   *)
(* its next step is taken.  The two conditions are weak fairness of Next    *)
(* and of NextChunk with the enabling condition written out as the state    *)
(* predicate it amounts to: a step of Next can be taken exactly while the   *)
(* driver is under way, a step of NextChunk exactly while the call is.      *)

DriverUnderWay == pc \in {"loop", "map", "returned"}

CallUnderWay == call.pc \notin {"done", "idle"}

FairDriver == []<>(~DriverUnderWay) \/ []<><<Next>>_vars

FairChunk == []<>(~CallUnderWay) \/ []<><<NextChunk>>_vars

InitFair == Init \/ InitChunk

NextFair == Next \/ NextChunk

SpecFair == InitFair /\ [][NextFair]_vars /\ FairDriver /\ FairChunk

-----------------------------------------------------------------------------
(* One simple_infix_tokenize_chunk_internal call from the point where the    *)
(* candidate spans are collected: sort, sweep candidate by candidate,        *)
(* re-sort, slice.  The candidates are any spans the literal and regex       *)
(* infix matchers can report: non-empty, on character boundaries, in any     *)
(* order of discovery.                                                        *)

\* the residual texts: one of single-byte characters, one with a two-byte one
ResidualText == <<"a", "b", "c", "d", "e", "f", "g", "h">>
ResidualTexts == {ResidualText, <<"a", "E", "-">>}

\* the byte offsets that are character boundaries of the chunk
Boundaries(chunk) == {ByteOffset(chunk, i) : i \in 0..Len(chunk)}

\* the non-empty (byte_start, byte_end) spans of the chunk
SpansOf(chunk) ==
    {<<a, b>> : a \in Boundaries(chunk), b \in Boundaries(chunk)} \cap
    {sp \in Nat \X Nat : sp[1] < sp[2]}

SpanLists(chunk) == UNION {[1..k -> SpansOf(chunk)] : k \in 0..MaxSpans}

\* variant: the sweep starts with the boundary at byte 1
InfixCall_BoundaryAtOne(chunk, spans) ==
    [pc |-> "collected", ret |-> "none", chunk |-> chunk,
     all_found_infix_spans |-> spans, found |-> spans, next |-> 1,
     filtered_matches |-> <<>>, current_processed_byte_end |-> 1,
     underflow |-> FALSE, tokens |-> <<>>]

\* the locals of the call once all_found_infix_spans is filled
InfixCall(chunk, spans) ==
    [pc |-> "collected", ret |-> "none", chunk |-> chunk,
     all_found_infix_spans |-> spans, found |-> spans, next |-> 1,
     filtered_matches |-> <<>>, current_processed_byte_end |-> 0,
     underflow |-> FALSE, tokens |-> <<>>]

InitInfix ==
    /\ rules = RulesNone
    /\ \E chunk \in ResidualTexts : \E spans \in SpanLists(chunk) :
           call = InfixCall(chunk, spans)
    /\ content = <<>>
    /\ pc = "idle"
    /\ line_idx = 0
    /\ current_global_char_offset = 0
    /\ all_tokens = <<>>
    /\ sentence = <<>>
    /\ chunks_info = <<>>
    /\ pending = {}
    /\ tokenized_chunks_unordered = <<>>
    /\ task_tokens = <<>>
    /\ tokens_for_line = <<>>

\* if all_found_infix_spans.is_empty() { return vec![chunk.to_string()]; }
InfixNoSpans ==
    /\ call.pc = "collected"
    /\ call.all_found_infix_spans = <<>>
    /\ call' = [call EXCEPT !.tokens = <<call.chunk>>, !.pc = "returned", !.ret = "whole"]
    /\ UNCHANGED <<rules, driverVars>>

\* all_found_infix_spans.sort_by_key(|k| (k.0, Reverse(k.1 - k.0)))
InfixSort ==
    /\ call.pc = "collected"
    /\ call.all_found_infix_spans # <<>>
    /\ call' = [call EXCEPT !.all_found_infix_spans = SortSpans(@), !.pc = "sweep"]
    /\ UNCHANGED <<rules, driverVars>>

\* the state after one iteration of the sweep; the index underflow panics
AfterSweepStep(st) ==
    IF st.underflow THEN [st EXCEPT !.pc = "panicked"] ELSE [st EXCEPT !.next = @ + 1]

\* one iteration of: for &(byte_start, byte_end) in &all_found_infix_spans
InfixSweep ==
    /\ call.pc = "sweep"
    /\ call.next <= Len(call.all_found_infix_spans)
    /\ call' = AfterSweepStep(SweepStep(call, call.all_found_infix_spans[call.next]))
    /\ UNCHANGED <<rules, driverVars>>

\* filtered_matches.sort_by_key(|k| k.0) once the sweep is over
InfixResort ==
    /\ call.pc = "sweep"
    /\ call.next > Len(call.all_found_infix_spans)
    /\ call' = [call EXCEPT !.filtered_matches = SortByStart(@), !.pc = "slice"]
    /\ UNCHANGED <<rules, driverVars>>

\* the result of the slicing loop and of the fallback after it
Sliced(st, tokens) ==
    [st EXCEPT !.tokens = TokensOrChunk(tokens, st.chunk), !.pc = "returned",
               !.ret = IF tokens = <<>> THEN "fallback" ELSE "split"]

\* 4. split the chunk around filtered_matches and return
InfixSlice ==
    /\ call.pc = "slice"
    /\ call' = Sliced(call, SliceAround(call.chunk, call.filtered_matches, 0))
    /\ UNCHANGED <<rules, driverVars>>

NextInfix ==
    \/ InfixNoSpans
    \/ InfixSort
    \/ InfixSweep
    \/ InfixResort
    \/ InfixSlice

SpecInfix == InitInfix /\ [][NextInfix]_vars

-----------------------------------------------------------------------------
(* The two functions that end in a fallback, each as its own call: a        *)
(* tokenize_chunk call, or a simple_infix_tokenize_chunk_internal call from *)
(* its collected spans.  The stages of the two have different names, so a   *)
(* run is a run of one of the two.                                          *)

InitCalls == InitChunk \/ InitInfix

NextCalls == NextChunk \/ NextInfix

SpecCalls == InitCalls /\ [][NextCalls]_vars

-----------------------------------------------------------------------------
(* Properties of one tokenize_chunk call (under SpecChunk) *)

Returned == call.pc = "done"
Chunk == call.original_chunk
Base == call.base_char_offset
Tokens == call.tokens_with_offsets

\* the spans of a token list tile [from, to): contiguous, each as wide as its text
SpansTile(tokens, from, to) ==
    /\ Len(tokens) >= 1
    /\ tokens[1][2] = from
    /\ \A i \in 1..(Len(tokens) - 1) : tokens[i][3] = tokens[i + 1][2]
    /\ tokens[Len(tokens)][3] = to
    /\ \A i \in 1..Len(tokens) : tokens[i][3] - tokens[i][2] = Len(tokens[i][1])

\* the surface forms of the entry of key, in entry order
EntryTexts(rs, key) ==
    LET entry == rs.exceptions[key]
        withOrth == {i \in 1..Len(entry) : "ORTH" \in DOMAIN entry[i]}
        nth(n) == CHOOSE i \in withOrth : Cardinality({j \in withOrth : j <= i}) = n
    IN [n \in 1..Cardinality(withOrth) |-> entry[nth(n)]["ORTH"]]

\* the chunk is a key whose surface forms have the chunk's character length
CoveringEntry(rs, chunk) ==
    /\ chunk \in DOMAIN rs.exceptions
    /\ SumLens(EntryTexts(rs, chunk)) = Len(chunk)

\* the covering entry of the chunk, if any, also spells the chunk
EntrySpellsChunk(rs, chunk) ==
    CoveringEntry(rs, chunk) => Concat(EntryTexts(rs, chunk)) = chunk

\* C1 as stated: for every non-empty chunk, every rule set and every base
\* offset the texts of the returned tokens, concatenated in output order, are
\* the chunk text, whichever path produced them.
C1_TilingTextAnyRuleSet ==
    (Returned /\ Chunk # <<>>) => Concat(TokenTexts(Tokens)) = Chunk

\* C1 amended: the texts of the returned tokens concatenate to the chunk text
\* on every path, provided that when the chunk is an exception key whose
\* surface forms have the chunk's character length (the only test the
\* exception path makes) these surface forms also spell the chunk.
C1_TilingText ==
    (Returned /\ Chunk # <<>> /\ EntrySpellsChunk(rules, Chunk))
        => Concat(TokenTexts(Tokens)) = Chunk

C1_Witness ==
    /\ Returned
    /\ call.ret = "exception"
    /\ Len(Tokens) >= 2
    /\ Concat(TokenTexts(Tokens)) = Chunk

\* C2: the spans of the returned tokens tile [b, b + n) for a non-empty chunk
\* of n characters at base b: the first starts at b, each ends where the next
\* starts, the last ends at b + n and each is as wide as its text has
\* characters (not bytes).
C2_TilingSpans ==
    (Returned /\ Chunk # <<>>) => SpansTile(Tokens, Base, Base + Len(Chunk))

C2_Witness ==
    /\ Returned
    /\ call.ret = "general"
    /\ Len(Tokens) >= 3
    /\ call.suffixes_found_reversed # <<>>
    /\ \E i \in 1..Len(Tokens) : StrLen(Tokens[i][1]) > Len(Tokens[i][1])
    /\ Base > 0

\* the rule set with nothing but the exceptions of rs
OnlyExceptions(rs) == [RulesNone EXCEPT !.exceptions = rs.exceptions]

\* C5: a non-empty chunk that is an exception key whose surface forms have
\* the chunk's character length returns exactly these surface forms in entry
\* order with contiguous spans from the base, and the other rules have no
\* influence: the result is the one of the rule set without them.
C5_ExceptionPrecedence ==
    (Returned /\ Chunk # <<>> /\ CoveringEntry(rules, Chunk)) =>
        /\ TokenTexts(Tokens) = EntryTexts(rules, Chunk)
        /\ SpansTile(Tokens, Base, Base + Len(Chunk))
        /\ Tokens = TokenizeChunk(Chunk, OnlyExceptions(rules), Base)
        /\ call.ret = "exception"

C5_Witness ==
    /\ Returned
    /\ CoveringEntry(rules, Chunk)
    /\ WholeMatch(rules.token_match, Chunk)
    /\ Len(Tokens) = 2

\* the rule set without the exception entry of key
WithoutEntry(rs, key) ==
    [rs EXCEPT !.exceptions = [k \in (DOMAIN rs.exceptions) \ {key} |-> rs.exceptions[k]]]

\* the chunk is a key whose surface forms are shorter or longer than the chunk
StaleEntry(rs, chunk) ==
    /\ chunk \in DOMAIN rs.exceptions
    /\ SumLens(EntryTexts(rs, chunk)) # Len(chunk)

\* the sub-tokens the exception path pushes for the chunk
EntryTokens(rs, chunk, base) == TokensFrom(EntryTexts(rs, chunk), base)

\* C6 as stated: when the chunk is a key whose surface forms do not have the
\* chunk's length, no exception sub-token appears in the output and the
\* output is the one of the rule set without the entry.
C6_NoSubTokenInOutput ==
    (Returned /\ Chunk # <<>> /\ StaleEntry(rules, Chunk)) =>
        /\ \A i \in 1..Len(Tokens) :
               \A j \in 1..Len(EntryTokens(rules, Chunk, Base)) :
                   Tokens[i] # EntryTokens(rules, Chunk, Base)[j]
        /\ Tokens = TokenizeChunk(Chunk, WithoutEntry(rules, Chunk), Base)

\* C6 amended: when the chunk is a key whose surface forms do not have the
\* chunk's length, the sub-tokens pushed by the exception path are discarded
\* before the next rule is tried and the output is exactly the one of the
\* rule set without the entry (which may by itself contain a token equal to
\* a sub-token).
C6_PartialExceptionFallback ==
    (Chunk # <<>> /\ StaleEntry(rules, Chunk)) =>
        /\ call.pc = "token_match" => Tokens = <<>>
        /\ call.ret # "exception"
        /\ Returned => Tokens = TokenizeChunk(Chunk, WithoutEntry(rules, Chunk), Base)

C6_Witness ==
    /\ Returned
    /\ StaleEntry(rules, Chunk)
    /\ EntryTexts(rules, Chunk) # <<>>
    /\ Len(EntryTexts(rules, Chunk)) # Len(Tokens)

\* the matcher exists and its match is the whole chunk, in bytes
SpansWholeChunk(matcher, chunk) ==
    /\ matcher # <<>>
    /\ ~matcher[1].err
    /\ Find(matcher[1], chunk) = [found |-> TRUE, start |-> 0, end |-> StrLen(chunk)]

OneWholeToken == Tokens = << <<Chunk, Base, Base + Len(Chunk)>> >>

\* C7: without a covering exception, a chunk that the whole-token matcher, or
\* failing that the URL matcher, matches from byte 0 to its byte length
\* returns the chunk as one token and no prefix, suffix or infix rule is
\* applied; a match of only a part of the chunk never returns early.
C7_WholeMatchAtomicity ==
    (Returned /\ Chunk # <<>> /\ ~CoveringEntry(rules, Chunk)) =>
        /\ (SpansWholeChunk(rules.token_match, Chunk)
              \/ SpansWholeChunk(rules.url_match, Chunk))
             => /\ OneWholeToken
                /\ call.ret \in {"token_match", "url_match"}
                /\ call.current_work_slice = Chunk
                /\ call.suffixes_found_reversed = <<>> /\ call.infix_parts = <<>>
        /\ call.ret = "token_match" => SpansWholeChunk(rules.token_match, Chunk)
        /\ call.ret = "url_match" =>
               /\ ~SpansWholeChunk(rules.token_match, Chunk)
               /\ SpansWholeChunk(rules.url_match, Chunk)

C7_Witness ==
    /\ Returned
    /\ call.ret = "url_match"
    /\ rules.token_match # <<>>
    /\ Find(rules.token_match[1], Chunk).found
    /\ ~SpansWholeChunk(rules.token_match, Chunk)
    /\ Len(Chunk) = 3
    /\ OneWholeToken

\* pattern p has a non-empty occurrence in s at character index i
OccursAt(p, s, i) ==
    \E k \in 1..Len(p.alts) : p.alts[k] # <<>> /\ AltMatchesAt(p, p.alts[k], s, i)

\* pattern p has a non-empty occurrence in s that ends at the end of s
OccursAtEnd(p, s) ==
    \E i \in 0..Len(s), k \in 1..Len(p.alts) :
        /\ p.alts[k] # <<>>
        /\ AltMatchesAt(p, p.alts[k], s, i)
        /\ i + Len(p.alts[k]) = Len(s)

OccursAnywhere(p, s) == \E i \in 0..Len(s) : OccursAt(p, s, i)

\* no rule of the rule set applies to the chunk
NoRuleApplies(rs, chunk) ==
    /\ chunk \notin DOMAIN rs.exceptions
    /\ ~SpansWholeChunk(rs.token_match, chunk)
    /\ ~SpansWholeChunk(rs.url_match, chunk)
    /\ \A k \in 1..Len(rs.prefixes) : ~OccursAt(rs.prefixes[k], chunk, 0)
    /\ \A k \in 1..Len(rs.suffixes) : ~OccursAtEnd(rs.suffixes[k], chunk)
    /\ \A k \in 1..Len(rs.regex_infixes) : ~OccursAnywhere(rs.regex_infixes[k], chunk)
    /\ rs.literal_infix_matcher # <<>> => ~OccursAnywhere(rs.literal_infix_matcher[1], chunk)

\* C8: a non-empty chunk that matches no exception key, no whole-token or URL
\* matcher, no prefix pattern at its start, no suffix pattern at its end and
\* no infix pattern anywhere returns exactly one token, the whole chunk with
\* the span [base, base + character length).
C8_NoRuleFallback ==
    (Returned /\ Chunk # <<>> /\ NoRuleApplies(rules, Chunk)) => OneWholeToken

C8_Witness ==
    /\ Returned
    /\ NoRuleApplies(rules, Chunk)
    /\ Len(Chunk) >= 2
    /\ rules.suffixes # <<>>
    /\ \E k \in 1..Len(rules.suffixes) : OccursAnywhere(rules.suffixes[k], Chunk)
    /\ OneWholeToken

\* C9: tokenize_chunk returns at least one token for every non-empty chunk
\* and the empty list only for the empty chunk.
C9_AtLeastOneToken ==
    Returned => (Tokens = <<>> <=> Chunk = <<>>)

C9_Witness ==
    /\ Returned
    /\ Chunk # <<>>
    /\ Chunk \in DOMAIN rules.exceptions
    /\ EntryTexts(rules, Chunk) = <<>>
    /\ Len(Tokens) >= 1

\* the infix resolver has returned for the residual text current_work_slice
InfixReturned ==
    /\ call.pc \in {"reattach", "fallback", "done"}
    /\ call.ret \in {"none", "general", "fallback"}
    /\ call.current_work_slice # <<>>

\* C10: for every non-empty residual text the segments returned by the infix
\* resolver are all non-empty and their concatenation, in order, is the
\* residual text.
C10_InfixRoundTrip ==
    InfixReturned =>
        /\ call.infix_parts # <<>>
        /\ \A i \in 1..Len(call.infix_parts) : call.infix_parts[i] # <<>>
        /\ Concat(call.infix_parts) = call.current_work_slice

C10_Witness ==
    /\ InfixReturned
    /\ Len(AllFoundInfixSpans(call.current_work_slice, rules.literal_infix_matcher,
                              rules.regex_infixes)) >= 2
    /\ Len(call.infix_parts) = 1
    /\ Len(call.current_work_slice) = 3

-----------------------------------------------------------------------------
(* Properties of the orchestrator (under Spec) *)

\* the orchestrator has returned for the line `sentence`
LineReturned == pc = "returned"

\* the tokens of the line with their offsets, chunk after chunk, left to right
LineTokens == Concat(task_tokens)

\* the number of whitespace characters the line starts with
LeadingWhitespace(s) == MinOr({i \in 1..Len(s) : ~IsWs(s[i])}, Len(s) + 1) - 1

\* C3 as stated: in the token sequence of a line tokenized at base b every
\* token ends where the next one starts, and the first token starts at b.
C3_OffsetsContiguousAcrossLine ==
    (LineReturned /\ LineTokens # <<>>) =>
        /\ LineTokens[1][2] = current_global_char_offset
        /\ \A i \in 1..(Len(LineTokens) - 1) : LineTokens[i][3] = LineTokens[i + 1][2]

\* the characters of the line from offset a up to offset b (absolute offsets)
LineText(a, b) ==
    SubSeq(sentence, a - current_global_char_offset + 1, b - current_global_char_offset)

\* C3 amended: in the token sequence of a line tokenized at base b no token
\* starts before the previous one ends, the characters between the end of a
\* token and the start of the next are exactly the whitespace between their
\* chunks (none inside one chunk), and the first token starts at b plus the
\* number of whitespace characters the line begins with.
C3_OffsetMonotonicity ==
    (LineReturned /\ LineTokens # <<>>) =>
        /\ LineTokens[1][2] = current_global_char_offset + LeadingWhitespace(sentence)
        /\ \A i \in 1..(Len(LineTokens) - 1) :
               /\ LineTokens[i][3] <= LineTokens[i + 1][2]
               /\ \A c \in 1..Len(LineText(LineTokens[i][3], LineTokens[i + 1][2])) :
                      IsWs(LineText(LineTokens[i][3], LineTokens[i + 1][2])[c])
        /\ \A t \in 1..Len(task_tokens) :
               \A i \in 1..(Len(task_tokens[t]) - 1) :
                   task_tokens[t][i][3] = task_tokens[t][i + 1][2]

C3_Witness ==
    /\ LineReturned
    /\ Len(chunks_info) >= 2
    /\ Len(LineTokens) >= 3
    /\ "W" \in {sentence[i] : i \in 1..Len(sentence)}

RECURSIVE SequentialTokens(_, _, _)
\* the chunks tokenized one after another, left to right, results concatenated
SequentialTokens(info, rs, base) ==
    IF info = <<>> THEN <<>>
    ELSE TokenTexts(TokenizeChunk(Head(info)[2], rs, base + Head(info)[1]))
         \o SequentialTokens(Tail(info), rs, base)

\* C4: whatever the order in which the chunk tasks complete, the orchestrator
\* returns the token sequence of the sequential left-to-right tokenization.
C4_OrderDeterminism ==
    LineReturned =>
        tokens_for_line = SequentialTokens(chunks_info, rules, current_global_char_offset)

C4_Witness ==
    /\ LineReturned
    /\ Len(tokenized_chunks_unordered) >= 2
    /\ tokenized_chunks_unordered[1][1] > tokenized_chunks_unordered[2][1]
    /\ tokenized_chunks_unordered[1][2] # tokenized_chunks_unordered[2][2]

\* the rule set has a whole-token matcher that recognizes "$5.00" and a
\* suffix pattern for "!"
HasCurrencyAndBang(rs) ==
    /\ SpansWholeChunk(rs.token_match, SubSeq(CurrencyChunk, 1, 5))
    /\ \E k \in 1..Len(rs.suffixes) : rs.suffixes[k] = Pat(<< <<"!">> >>)

\* C13 as stated: with a whole-token matcher for currency amounts and a
\* suffix pattern for "!" the chunk "$5.00!" gives exactly the two tokens
\* "$5.00" and "!".
C13_CurrencyExample ==
    (Returned /\ Chunk = CurrencyChunk /\ HasCurrencyAndBang(rules)) =>
        TokenTexts(Tokens) = <<SubSeq(CurrencyChunk, 1, 5), <<"!">> >>

-----------------------------------------------------------------------------
(* Properties of one infix resolver call (under SpecInfix) *)

InfixDone == call.pc = "returned"

\* the candidates found are exactly the spans a and b, in either order
FoundPair(a, b) == call.found = <<a, b>> \/ call.found = <<b, a>>

\* C11: with exactly the two candidates [2,5) and [4,8) on the 8-character
\* residual, the sweep accepts the one span [2,8) and the resolver returns
\* the two segments residual[0..2] and residual[2..8].
C11_InfixOverlapMerge ==
    (call.chunk = ResidualText /\ FoundPair(<<2, 5>>, <<4, 8>>)) =>
        /\ call.pc \in {"slice", "returned"} => call.filtered_matches = << <<2, 8>> >>
        /\ call.pc # "panicked"
        /\ InfixDone => call.tokens = <<SubSeq(ResidualText, 1, 2), SubSeq(ResidualText, 3, 8)>>

C11_Witness ==
    /\ InfixDone
    /\ call.chunk = ResidualText
    /\ call.found = << <<4, 8>>, <<2, 5>> >>
    /\ Len(call.tokens) = 2

\* the byte range of the i-th returned segment when the segments are laid
\* one after another from byte 0
SegRange(tokens, i) ==
    <<StrLen(Concat(SubSeq(tokens, 1, i - 1))), StrLen(Concat(SubSeq(tokens, 1, i)))>>

\* the i-th returned segment is an infix match: its range is an accepted span
IsInfixSegment(i) ==
    \E j \in 1..Len(call.filtered_matches) :
        call.filtered_matches[j] = SegRange(call.tokens, i)

\* C17 as stated: in the returned segment list two infix-match segments are
\* never next to each other without a plain run between them.
C17_NoAdjacentInfixSegments ==
    InfixDone =>
        \A i \in 1..(Len(call.tokens) - 1) : ~(IsInfixSegment(i) /\ IsInfixSegment(i + 1))

\* C17 amended: the returned segments are the accepted spans, in order and
\* without overlap, each as one segment, and the non-empty texts between
\* them as plain runs; two plain runs are never next to each other, and two
\* infix-match segments are next to each other exactly when the second
\* accepted span starts at the byte where the first ends.
C17_InfixAlternation ==
    InfixDone =>
        /\ \A i \in 1..(Len(call.tokens) - 1) : IsInfixSegment(i) \/ IsInfixSegment(i + 1)
        /\ \A j \in 1..Len(call.filtered_matches) :
               \E i \in 1..Len(call.tokens) : call.filtered_matches[j] = SegRange(call.tokens, i)
        /\ \A j \in 1..(Len(call.filtered_matches) - 1) :
               call.filtered_matches[j][2] <= call.filtered_matches[j + 1][1]
        /\ \A i \in 1..(Len(call.tokens) - 1) :
               (IsInfixSegment(i) /\ IsInfixSegment(i + 1)) <=>
                   \E j \in 1..(Len(call.filtered_matches) - 1) :
                       /\ call.filtered_matches[j] = SegRange(call.tokens, i)
                       /\ call.filtered_matches[j][2] = call.filtered_matches[j + 1][1]

C17_Witness ==
    /\ InfixDone
    /\ Len(call.filtered_matches) = 2
    /\ call.filtered_matches[1][2] = call.filtered_matches[2][1]
    /\ Len(call.tokens) = 4
    /\ IsInfixSegment(2) /\ IsInfixSegment(3)

-----------------------------------------------------------------------------
(* Properties of the orchestrator, continued (under Spec) *)

\* the orchestrator has returned for the line "don't stop." at base 0
ExampleReturned ==
    /\ LineReturned
    /\ rules = RulesExample
    /\ sentence = ExampleLine
    /\ current_global_char_offset = 0

\* C12: the line "don't stop." at base 0, with the exception don't -> do, n't
\* and a suffix pattern for ".", gives the tokens do, n't, stop, "." and the
\* chunk tasks compute the offsets (0,2), (2,5), (6,10), (10,11) for them.
C12_DontStopExample ==
    ExampleReturned =>
        /\ tokens_for_line =
               << <<"d", "o">>, <<"n", "'", "t">>, <<"s", "t", "o", "p">>, <<".">> >>
        /\ LineTokens =
               << <<<<"d", "o">>, 0, 2>>, <<<<"n", "'", "t">>, 2, 5>>,
                  <<<<"s", "t", "o", "p">>, 6, 10>>, <<<<".">>, 10, 11>> >>

C12_Witness ==
    /\ ExampleReturned
    /\ Len(tokens_for_line) = 4
    /\ tokenized_chunks_unordered[1][1] = 6

\* C14 as stated: the value the orchestrator returns to the driver is the
\* sequence of the triples (text, start, end) computed by the chunk tasks.
C14_OrchestratorReturnsTriples ==
    LineReturned => tokens_for_line = LineTokens

-----------------------------------------------------------------------------
(* Properties of main from construction on (under SpecMain) *)

\* the position of component c in the order of new()
ComponentIndex(c) == CHOOSE i \in 1..Len(Components) : Components[i] = c

\* some line processing has begun or the content has been read
PastConstruction == pc \in {"read", "loop", "map", "returned", "done"}

\* C15: a pattern list that does not compile makes TokenizerRules::new panic
\* at that component, before any later component is compiled; the panic is
\* final (no step follows it, nothing is retried); the content is read and
\* lines are tokenized only with the rule set built from every component.
C15_ConstructionFatal ==
    /\ [](PastConstruction => (call.invalid = {} /\ rules = RulesFull))
    /\ [](pc \in {"new", "panicked"} =>
             /\ rules = NotBuilt
             /\ content = <<>> /\ all_tokens = <<>> /\ line_idx = 0
             /\ \A c \in call.invalid : ComponentIndex(c) >= call.at)
    /\ [](pc = "panicked" <=> call.pc = "panicked")
    /\ [](pc = "panicked" =>
             \E c \in call.invalid : ComponentIndex(c) = call.at)
    /\ [][pc # "panicked"]_vars

C15_Witness ==
    /\ pc = "panicked"
    /\ call.invalid = {"url_match", "regex_infixes"}
    /\ call.prefixes # <<>>
    /\ call.regex_infixes = <<>>

\* C16: once new() has returned, no step of the driver, of the orchestrator or
\* of a chunk task, in any interleaving of the tasks, changes the rule set.
C16_RuleSetImmutable ==
    [][pc # "new" => rules' = rules]_vars

C16_Witness ==
    /\ pc = "done"
    /\ rules = RulesFull
    /\ Len(all_tokens) >= 3
    /\ Len(tokenized_chunks_unordered) >= 2

-----------------------------------------------------------------------------
(* Properties of the stripping loops and of the re-attachment (under SpecChunk) *)

Slice == call.current_work_slice

\* the prefix patterns whose reported match is non-empty and starts at 0
PrefixHits(rs, slice) ==
    {k \in 1..Len(rs.prefixes) : PrefixHit(rs.prefixes[k], slice)}

\* one prefix iteration that peels the match of pattern k off the slice
PeelsPrefix(k) ==
    /\ call'.pc = "prefix"
    /\ call'.tokens_with_offsets =
           Append(Tokens, call'.tokens_with_offsets[Len(Tokens) + 1])
    /\ call'.tokens_with_offsets[Len(Tokens) + 1][1] =
           ByteSlice(Slice, 0, Find(rules.prefixes[k], Slice).end)
    /\ call'.tokens_with_offsets[Len(Tokens) + 1][1] # <<>>
    /\ call'.tokens_with_offsets[Len(Tokens) + 1][1] \o call'.current_work_slice = Slice

\* one prefix iteration that ends the prefix loop and changes nothing else
StopsPrefix ==
    /\ call'.pc = "suffix"
    /\ call'.tokens_with_offsets = Tokens
    /\ call'.current_work_slice = Slice

\* C18: an iteration of the prefix loop on a non-empty slice emits the
\* non-empty match at the slice's start of the lowest-index prefix pattern
\* that has one, advances the slice past it and scans again from the first
\* pattern; it ends the loop, emitting nothing, exactly when the slice is
\* empty or no pattern matches at its start.  During the loop the tokens
\* emitted so far followed by the slice spell the chunk, so the layers are
\* peeled left to right.
C18_PrefixStripping ==
    /\ [](call.pc = "prefix" => Concat(TokenTexts(Tokens)) \o Slice = Chunk)
    /\ [][call.pc = "prefix" =>
            IF Slice = <<>> \/ PrefixHits(rules, Slice) = {}
            THEN StopsPrefix
            ELSE \E k \in PrefixHits(rules, Slice) :
                    /\ \A j \in PrefixHits(rules, Slice) : k <= j
                    /\ PeelsPrefix(k)]_vars

\* two layers have been peeled by the first prefix pattern although the
\* second pattern hit the chunk as well, and the loop is about to stop on a
\* non-empty slice
C18_Witness ==
    /\ call.pc = "prefix"
    /\ Len(Tokens) = 2
    /\ Cardinality(PrefixHits(rules, Chunk)) = 2
    /\ Tokens[1][1] = ByteSlice(Chunk, 0, Find(rules.prefixes[1], Chunk).end)
    /\ Find(rules.prefixes[2], Chunk).end > Find(rules.prefixes[1], Chunk).end
    /\ Slice # <<>>
    /\ PrefixHits(rules, Slice) = {}

Suffixes == call.suffixes_found_reversed

\* the non-empty matches of the scan of pattern p over the slice that end at
\* the end of the slice
RightAnchored(p, slice) ==
    IF p.err THEN {}
    ELSE {i \in 1..Len(FindIter(p, slice)) :
            /\ FindIter(p, slice)[i].end = StrLen(slice)
            /\ FindIter(p, slice)[i].end > FindIter(p, slice)[i].start}

\* the suffix patterns with a right-anchored match
SuffixAnchors(rs, slice) ==
    {k \in 1..Len(rs.suffixes) : RightAnchored(rs.suffixes[k], slice) # {}}

\* one suffix iteration that removes match m from the right of the slice;
\* the scan is taken up again unless nothing is left
RemovesSuffix(m) ==
    /\ call'.suffixes_found_reversed = Append(Suffixes, ByteSlice(Slice, m.start, m.end))
    /\ call'.current_work_slice \o ByteSlice(Slice, m.start, m.end) = Slice
    /\ call'.pc = IF call'.current_work_slice = <<>> THEN "infix" ELSE "suffix"
    /\ call'.tokens_with_offsets = Tokens

\* one suffix iteration that ends the suffix loop and changes nothing else
StopsSuffix ==
    /\ call'.pc = "infix"
    /\ call'.suffixes_found_reversed = Suffixes
    /\ call'.current_work_slice = Slice
    /\ call'.tokens_with_offsets = Tokens

\* C19: an iteration of the suffix loop on a non-empty slice looks, pattern
\* by pattern in declared order, at all matches of the pattern's scan of the
\* slice; the lowest-index pattern that has a non-empty match ending at the
\* slice's end has that match recorded and cut off the right of the slice,
\* and the scan starts again from the first pattern; the loop ends, removing
\* nothing, exactly when no pattern has such a match or the slice is empty.
C19_SuffixStripping ==
    [][call.pc = "suffix" =>
          IF Slice = <<>> \/ SuffixAnchors(rules, Slice) = {}
          THEN StopsSuffix
          ELSE \E k \in SuffixAnchors(rules, Slice) :
                  /\ \A j \in SuffixAnchors(rules, Slice) : k <= j
                  /\ \E i \in RightAnchored(rules.suffixes[k], Slice) :
                        RemovesSuffix(FindIter(rules.suffixes[k], Slice)[i])]_vars

\* two suffixes have been cut off by a pattern that stands before another
\* pattern anchored at the chunk's end, the anchored match was not the first
\* match of its scan, and the loop is about to stop on a non-empty slice
C19_Witness ==
    /\ call.pc = "suffix"
    /\ Tokens = <<>>
    /\ Len(Suffixes) = 2
    /\ Cardinality(SuffixAnchors(rules, Chunk)) = 2
    /\ \E k \in SuffixAnchors(rules, Chunk) :
          /\ \A j \in SuffixAnchors(rules, Chunk) : k <= j
          /\ 1 \notin RightAnchored(rules.suffixes[k], Chunk)
    /\ Slice # <<>>
    /\ SuffixAnchors(rules, Slice) = {}

GeneralReturned == Returned /\ call.ret = "general"

\* the number of tokens that were emitted by the prefix loop
PrefixCount == Len(Tokens) - Len(call.infix_parts) - Len(Suffixes)

\* the token texts are the first n of them, then the parts, then the suffixes
\* in reverse
InReattachOrder(texts, n, parts, suffixes) ==
    /\ n >= 0
    /\ texts = SubSeq(texts, 1, n) \o parts \o Reverse(suffixes)
    /\ suffixes # <<>> => texts[Len(texts)] = suffixes[1]

\* C20: on the general path the output is the tokens emitted by the prefix
\* loop in the order they were found, then the infix segments in their
\* order, then the suffixes in reverse of the order they were found (the one
\* stripped first is last), and it spells the chunk from left to right: the
\* prefix loop only appends, the suffix loop emits nothing, the infix stage
\* appends the segments and the re-attachment appends the reversed suffixes.
C20_ReattachmentOrder ==
    /\ [](GeneralReturned =>
            /\ InReattachOrder(TokenTexts(Tokens), PrefixCount, call.infix_parts, Suffixes)
            /\ Concat(TokenTexts(Tokens)) = Chunk)
    /\ [][call.pc = "prefix" =>
            /\ Len(call'.tokens_with_offsets) <= Len(Tokens) + 1
            /\ SubSeq(call'.tokens_with_offsets, 1, Len(Tokens)) = Tokens]_vars
    /\ [][call.pc = "suffix" => call'.tokens_with_offsets = Tokens]_vars
    /\ [][call.pc = "infix" =>
            /\ TokenTexts(call'.tokens_with_offsets) = TokenTexts(Tokens) \o call'.infix_parts
            /\ call'.suffixes_found_reversed = Suffixes]_vars
    /\ [][call.pc = "reattach" =>
            /\ TokenTexts(call'.tokens_with_offsets) = TokenTexts(Tokens) \o Reverse(Suffixes)
            /\ call'.suffixes_found_reversed = Suffixes
            /\ call'.infix_parts = call.infix_parts]_vars

\* a general-path result with a prefix token, two infix segments and two
\* different suffixes
C20_Witness ==
    /\ GeneralReturned
    /\ PrefixCount >= 1
    /\ Len(call.infix_parts) >= 2
    /\ Len(Suffixes) = 2
    /\ Suffixes[1] # Suffixes[2]
    /\ TokenTexts(Tokens)[Len(Tokens)] = Suffixes[1]
    /\ TokenTexts(Tokens)[Len(Tokens) - 1] = Suffixes[2]

-----------------------------------------------------------------------------
(* Properties of one infix resolver call, continued (under SpecInfix) *)

\* the sweep is over
Swept == call.pc \in {"slice", "returned"}

\* the bytes of the chunk that lie in one of the spans
Covered(spans) ==
    {b \in 0..StrLen(call.chunk) : \E i \in 1..Len(spans) : spans[i][1] <= b /\ b < spans[i][2]}

\* the candidate the next sweep iteration looks at
Candidate == call.all_found_infix_spans[call.next]

\* the candidate lies within the range accepted so far
CandidateContained ==
    /\ Candidate[1] < call.current_processed_byte_end
    /\ Candidate[2] <= call.current_processed_byte_end

\* C21: once the candidates are sorted and swept, the accepted spans do not
\* overlap one another, start at strictly increasing bytes, are non-empty and
\* lie within the residual, and cover exactly the bytes the candidates cover;
\* a sweep iteration whose candidate lies within the accepted range adds no
\* span and moves no boundary.
C21_OverlapResolution ==
    /\ [](Swept =>
            /\ \A j \in 1..(Len(call.filtered_matches) - 1) :
                  /\ call.filtered_matches[j][2] <= call.filtered_matches[j + 1][1]
                  /\ call.filtered_matches[j][1] < call.filtered_matches[j + 1][1]
            /\ \A j \in 1..Len(call.filtered_matches) :
                  /\ call.filtered_matches[j][1] < call.filtered_matches[j][2]
                  /\ call.filtered_matches[j][2] <= StrLen(call.chunk)
            /\ Covered(call.filtered_matches) = Covered(call.found))
    /\ [][(call.pc = "sweep" /\ call.next <= Len(call.all_found_infix_spans)
             /\ CandidateContained) =>
            /\ call'.filtered_matches = call.filtered_matches
            /\ call'.current_processed_byte_end = call.current_processed_byte_end
            /\ call'.pc = "sweep"]_vars

\* the second candidate found lies inside the first one and only the first
\* one is accepted
C21_Witness ==
    /\ Swept
    /\ Len(call.found) = 2
    /\ call.found[1][1] < call.found[2][1]
    /\ call.found[2][2] < call.found[1][2]
    /\ call.filtered_matches = <<call.found[1]>>

\* the next sweep iteration takes the merge branch
CandidateMerges ==
    /\ call.pc = "sweep"
    /\ call.next <= Len(call.all_found_infix_spans)
    /\ Candidate[1] < call.current_processed_byte_end
    /\ Candidate[2] > call.current_processed_byte_end

\* C29: whenever a sweep iteration takes the merge branch, a span has been
\* accepted before, so filtered_matches.len() - 1 does not underflow and the
\* call never panics in the sweep.
C29_MergeNeverUnderflows ==
    /\ CandidateMerges => call.filtered_matches # <<>>
    /\ ~call.underflow
    /\ call.pc # "panicked"

\* the sweep has merged the two candidates found into one span that is
\* neither of them
C29_Witness ==
    /\ Swept
    /\ Len(call.found) = 2
    /\ Len(call.filtered_matches) = 1
    /\ call.filtered_matches[1] # call.found[1]
    /\ call.filtered_matches[1] # call.found[2]

-----------------------------------------------------------------------------
(* Properties of the infix stage of tokenize_chunk (under SpecChunk) *)

\* the call is about to hand a non-empty residual to the infix resolver
AtInfixStage == call.pc = "infix" /\ Slice # <<>>

\* the candidate spans the resolver collects from the residual
Collected ==
    AllFoundInfixSpans(Slice, rules.literal_infix_matcher, rules.regex_infixes)

IsCollected(sp) == \E j \in 1..Len(Collected) : Collected[j] = sp

\* the span (byte_start, byte_end) of n characters from character index i
SpanAt(s, i, n) == <<ByteOffset(s, i), ByteOffset(s, i + n)>>

\* every occurrence of every literal infix string in the residual is collected
EveryLiteralOccurrenceCollected ==
    rules.literal_infix_matcher # <<>> =>
        \A i \in 0..(Len(Slice) - 1) :
            \A k \in 1..Len(rules.literal_infix_matcher[1].alts) :
                (/\ rules.literal_infix_matcher[1].alts[k] # <<>>
                 /\ AltMatchesAt(rules.literal_infix_matcher[1],
                                 rules.literal_infix_matcher[1].alts[k], Slice, i))
                    => IsCollected(SpanAt(Slice, i, Len(rules.literal_infix_matcher[1].alts[k])))

\* every non-empty match of the scan of every regex infix pattern is collected
EveryRegexMatchCollected ==
    \A k \in 1..Len(rules.regex_infixes) :
        ~rules.regex_infixes[k].err =>
            \A j \in 1..Len(FindIter(rules.regex_infixes[k], Slice)) :
                FindIter(rules.regex_infixes[k], Slice)[j].end >
                    FindIter(rules.regex_infixes[k], Slice)[j].start
                => IsCollected(<<FindIter(rules.regex_infixes[k], Slice)[j].start,
                                 FindIter(rules.regex_infixes[k], Slice)[j].end>>)

\* C22 as stated: the resolver collects every occurrence of every literal
\* infix string in the residual, overlapping ones included, and every
\* non-empty match of every regex infix pattern; no collected span is empty.
C22_CollectsEveryOccurrence ==
    AtInfixStage =>
        /\ EveryLiteralOccurrenceCollected
        /\ EveryRegexMatchCollected
        /\ \A j \in 1..Len(Collected) : Collected[j][1] < Collected[j][2]

\* the rule set without its whole-token and URL matchers
WithoutWholeMatchers(rs) == [rs EXCEPT !.token_match = <<>>, !.url_match = <<>>]

\* what was left of the chunk after the prefix loop
AfterPrefixes == Concat(call.infix_parts) \o Concat(Reverse(Suffixes))

\* C27: the whole-token matcher is consulted only right after the exception
\* lookup and the URL matcher only right after it, both with the slice still
\* the whole chunk and nothing emitted; a call that gets past them returns
\* what it would return without the two matchers, so what is left after
\* stripping is split by the stripping loops and the infix resolver whether
\* or not a matcher would accept it in full.
C27_WholeMatchersOnlyOnChunk ==
    /\ [](call.pc \in {"token_match", "url_match"} => (Slice = Chunk /\ Tokens = <<>>))
    /\ [][call'.pc = "token_match" => call.pc = "exception"]_vars
    /\ [][call'.pc = "url_match" => call.pc = "token_match"]_vars
    /\ []((Returned /\ call.ret \in {"general", "fallback"}) =>
            Tokens = TokenizeChunk(Chunk, WithoutWholeMatchers(rules), Base))

\* after a prefix was peeled the rest was a text the whole-token matcher
\* accepts in full, and the call has split it into several tokens
C27_Witness ==
    /\ GeneralReturned
    /\ PrefixCount >= 1
    /\ Len(call.infix_parts) + Len(Suffixes) >= 2
    /\ WholeMatch(rules.token_match, AfterPrefixes)

\* the patterns of a list whose search does not fail
Working(patterns) == SelectSeq(patterns, LAMBDA p : ~p.err)

\* the rule set without the patterns whose search fails at run time
WithoutFailing(rs) ==
    [rs EXCEPT !.prefixes = Working(@), !.suffixes = Working(@),
               !.regex_infixes = Working(@), !.token_match = Working(@),
               !.url_match = Working(@)]

HasFailing(rs) == WithoutFailing(rs) # rs

\* C28: with patterns in the rule set whose search reports an error at run
\* time, the call still runs through its stages and returns, what it returns
\* is what it returns under the rule set without those patterns, and for a
\* non-empty chunk (whose exception entry, if it has one of the chunk's
\* length, spells it) the returned tokens tile the chunk.
C28_MatcherErrorIsNoMatch ==
    HasFailing(rules) =>
        /\ call.pc \in {"start", "exception", "token_match", "url_match", "prefix",
                        "suffix", "infix", "reattach", "fallback", "done"}
        /\ Returned => Tokens = TokenizeChunk(Chunk, WithoutFailing(rules), Base)
        /\ (Returned /\ Chunk # <<>> /\ EntrySpellsChunk(rules, Chunk)) =>
              /\ Concat(TokenTexts(Tokens)) = Chunk
              /\ SpansTile(Tokens, Base, Base + Len(Chunk))

\* a chunk in which a failing regex infix pattern, a failing prefix pattern
\* and a failing whole-token pattern occur has been split at a working infix
C28_Witness ==
    /\ Returned
    /\ Len(Tokens) = 3
    /\ Len(call.infix_parts) = 3
    /\ Len(rules.regex_infixes) >= 1 /\ rules.regex_infixes[1].err
    /\ OccursAnywhere(rules.regex_infixes[1], Chunk)
    /\ Len(rules.token_match) = 1 /\ rules.token_match[1].err
    /\ OccursAt(rules.token_match[1], Chunk, 0)

-----------------------------------------------------------------------------
(* Properties of the orchestrator and the driver, continued (under Spec) *)

\* text stands in the line at character offset off as a maximal run of
\* non-whitespace characters
IsMaximalRun(line, off, text) ==
    /\ text # <<>>
    /\ \A p \in 1..Len(text) : ~IsWs(text[p])
    /\ off + Len(text) <= Len(line)
    /\ SubSeq(line, off + 1, off + Len(text)) = text
    /\ off = 0 \/ IsWs(line[off])
    /\ off + Len(text) = Len(line) \/ IsWs(line[off + Len(text) + 1])

\* C23: the chunks recorded for the line are its maximal non-whitespace
\* substrings, all of them, from left to right, each with the number of
\* characters that precede it in the line; the recorded offsets are strictly
\* increasing, so no two are equal.
C23_ChunkOffsets ==
    /\ \A i \in 1..Len(chunks_info) :
          IsMaximalRun(sentence, chunks_info[i][1], chunks_info[i][2])
    /\ \A i \in 1..(Len(chunks_info) - 1) : chunks_info[i][1] < chunks_info[i + 1][1]
    /\ \A p \in 1..Len(sentence) :
          ~IsWs(sentence[p]) =>
              \E i \in 1..Len(chunks_info) :
                  chunks_info[i][1] < p /\ p <= chunks_info[i][1] + Len(chunks_info[i][2])

\* a line that starts with a multi-byte whitespace character and holds the
\* same chunk text twice
C23_Witness ==
    /\ pc = "map"
    /\ Len(chunks_info) = 2
    /\ sentence[1] = "W"
    /\ chunks_info[1][2] = chunks_info[2][2]
    /\ chunks_info[1][1] = 1
    /\ chunks_info[2][1] = 3

\* the number of characters of the content that stand before its k-th line:
\* the lines before it and one line terminator after each of them
LineStart(k) == SumLens(SubSeq(Lines(content), 1, k - 1)) + (k - 1)

\* C24 as stated: while a line is being tokenized, the running offset, which
\* is the base offset the orchestrator gets for the line, is the absolute
\* character position of the line's first character in the content, also
\* after empty lines and for content without a final newline.
C24_RunningOffsetIsLineStart ==
    pc \in {"map", "returned"} =>
        /\ current_global_char_offset = LineStart(line_idx)
        /\ SubSeq(content, current_global_char_offset + 1,
                  current_global_char_offset + Len(sentence)) = sentence

\* the token texts of one line tokenized on its own, chunk after chunk
TextsOfLine(line) == SequentialTokens(ChunksInfo(line, SplitWhitespace(line), 0, 0), rules, 0)

RECURSIVE DocTokens(_)
\* the token texts of the first k lines of the content, line after line
DocTokens(k) ==
    IF k = 0 THEN <<>> ELSE DocTokens(k - 1) \o TextsOfLine(Lines(content)[k])

\* C26: the driver takes the next line only between lines, when no chunk task
\* is pending and the document stream holds the tokens of all lines before
\* it; chunk tasks are pending only while the orchestrator works on the
\* current line, and every task that completes is one of that line; the
\* document stream grows only by appending the tokens the orchestrator
\* returned for the current line, and at the end it is the concatenation of
\* the token sequences of the lines in input order.
C26_LineSequencing ==
    /\ [](pc \in {"loop", "done"} => all_tokens = DocTokens(line_idx))
    /\ [](pc \in {"map", "returned"} =>
            /\ all_tokens = DocTokens(line_idx - 1)
            /\ sentence = Lines(content)[line_idx])
    /\ [](pc = "done" => line_idx = Len(Lines(content)))
    /\ [](pending # {} => (pc = "map" /\ pending \subseteq 1..Len(chunks_info)))
    /\ [][line_idx' # line_idx =>
            /\ line_idx' = line_idx + 1
            /\ pc = "loop" /\ pending = {}
            /\ all_tokens = DocTokens(line_idx)]_vars
    /\ [][task_tokens' # task_tokens /\ line_idx' = line_idx =>
            /\ pc = "map" /\ pc' = "map"
            /\ sentence' = sentence /\ chunks_info' = chunks_info]_vars
    /\ [][all_tokens' # all_tokens =>
            /\ pc = "returned" /\ pending = {}
            /\ all_tokens' = all_tokens \o tokens_for_line
            /\ tokens_for_line = TextsOfLine(Lines(content)[line_idx])]_vars

\* the driver is done with a content of two lines that gave different tokens
C26_Witness ==
    /\ pc = "done"
    /\ line_idx = 2
    /\ DocTokens(1) # <<>>
    /\ DocTokens(2) # DocTokens(1) \o DocTokens(1)
    /\ Len(all_tokens) > Len(DocTokens(1))
    /\ all_tokens[1] # all_tokens[Len(all_tokens)]

-----------------------------------------------------------------------------
(* Termination (under SpecFair) *)

\* C25: every tokenize_chunk call that starts returns: while it is under
\* way its next step changes its state, and every iteration of the prefix
\* loop and of the suffix loop that stays in its loop leaves a strictly
\* shorter slice.  Every line whose chunks were handed to the parallel map
\* is returned by the orchestrator: it re-assembles only when no task is
\* pending, and a step of the map is the completion of any one pending task,
\* whose result is a function of its own chunk alone.
C25_Termination ==
    /\ (call.pc = "start") ~> (call.pc = "done")
    /\ [](CallUnderWay => ChunkStep(call, rules) # call)
    /\ [][(call.pc = "prefix" /\ call'.pc = "prefix") =>
            Len(call'.current_work_slice) < Len(call.current_work_slice)]_vars
    /\ [][(call.pc = "suffix" /\ call'.pc = "suffix") =>
            Len(call'.current_work_slice) < Len(call.current_work_slice)]_vars
    /\ (pc = "map") ~> (pc = "returned")
    /\ [][(pc = "map" /\ pc' = "returned") => pending = {}]_vars
    /\ [][(pc = "map" /\ pc' = "map") =>
            \E i \in pending :
                /\ pending' = pending \ {i}
                /\ task_tokens'[i] =
                       TokenizeChunk(chunks_info[i][2], rules,
                                     current_global_char_offset + chunks_info[i][1])]_vars

\* a call has returned after two rounds of the prefix loop that peeled a
\* token each and a third that left the loop
C25_Witness ==
    /\ call.pc = "done"
    /\ call.ret = "general"
    /\ call.suffixes_found_reversed = <<>>
    /\ Len(call.tokens_with_offsets) - Len(call.infix_parts) = 2

-----------------------------------------------------------------------------
(* The fallbacks (under SpecCalls) *)

AtFallbackTest == call.pc = "fallback"

AtSlicing == call.pc = "slice"

InResolver == call.pc \in {"collected", "sweep", "slice", "returned", "panicked"}

\* C30: neither fallback is ever taken.  When tokenize_chunk evaluates the
\* condition of its final fallback for a non-empty chunk, the token list is
\* not empty: it holds the infix segments and the suffixes found, and if it
\* holds neither then it holds a prefix token.  When the resolver has found
\* at least one span, the slicing yields at least one segment.  No call
\* returns through a fallback.
C30_FallbackUnreachable ==
    /\ (AtFallbackTest /\ Chunk # <<>>) =>
          /\ Tokens # <<>>
          /\ Len(Tokens) >= Len(call.infix_parts) + Len(call.suffixes_found_reversed)
          /\ call.infix_parts = <<>> =>
                (call.current_work_slice = <<>> /\ Len(Tokens) >= 1)
    /\ (AtSlicing /\ call.found # <<>>) =>
          /\ call.filtered_matches # <<>>
          /\ SliceAround(call.chunk, call.filtered_matches, 0) # <<>>
    /\ (InResolver /\ call.pc = "returned" /\ call.found # <<>>) => call.ret = "split"
    /\ call.ret # "fallback"

\* the condition is evaluated for a chunk the prefixes consumed whole: no
\* infix segment, no suffix, and the token list is not empty
C30_Witness ==
    /\ AtFallbackTest
    /\ Chunk # <<>>
    /\ call.infix_parts = <<>>
    /\ call.suffixes_found_reversed = <<>>
    /\ Len(Tokens) >= 1

=============================================================================
